---- MODULE Spec2Model ----
(***************************************************************************)
(* A model of the log-line parser of goaccessfmt (src/assets/reference.c). *)
(*                                                                         *)
(* C strings are sequences of one-character strings; a char pointer into a *)
(* string s is an index i in 1..Len(s)+1, and the byte it points at is     *)
(* At(s, i), the terminating NUL when i = Len(s)+1.  A pointer field of a  *)
(* struct is NULL (the empty tuple) or Some(string) (a one-element tuple). *)
(***************************************************************************)
EXTENDS Integers, Sequences, FiniteSets, TLC

VARIABLES conf, json_logfmt, pc, nconfigs, ncalls, line, logitem, pf, js, ret, logitem_out

\* decode_url applied on its own: the argument and the values returned
VARIABLES input_url, single, double, repeated

\* json_next applied on its own: the stream, the event last returned and the
\* number of calls made
VARIABLES stream, event, nnext

\* threads in str_to_time: the position of each, the owner of tz_mutex, the
\* static buffer tz of set_tz, and what each thread's localtime_r call read
VARIABLES tpc, tz_mutex, tz, converted

\* a function of the tokenizer applied on its own: its arguments and what it
\* returned
VARIABLES call, retval

decvars == <<input_url, single, double, repeated>>

jsonvars == <<stream, event, nnext>>

tzvars == <<tpc, tz_mutex, tz, converted>>

callvars == <<call, retval>>

auxvars == <<decvars, jsonvars, tzvars, callvars>>

mainvars == <<json_logfmt, nconfigs, ncalls, line, logitem, pf, js, ret, logitem_out>>

vars == <<conf, pc, mainvars, auxvars>>

----------------------------------------------------------------------------
(* Bytes and C string primitives *)

NUL == "NUL"
NULL == <<>>
Some(s) == <<s>>
Val(f) == f[1]

At(s, i) == IF i >= 1 /\ i <= Len(s) THEN s[i] ELSE NUL

Lower == <<"a","b","c","d","e","f","g","h","i","j","k","l","m","n","o","p","q","r","s","t","u","v","w","x","y","z">>
Upper == <<"A","B","C","D","E","F","G","H","I","J","K","L","M","N","O","P","Q","R","S","T","U","V","W","X","Y","Z">>
Digits == <<"0","1","2","3","4","5","6","7","8","9">>

Range(s) == {s[i] : i \in 1..Len(s)}

\* isspace(3) over the bytes of the model's alphabet
isspace(c) == c \in {" ", "\t", "\n", "\r", "\f"}

is_digit(c) == c \in Range(Digits)

DigitVal(c) == (CHOOSE i \in 1..10 : Digits[i] = c) - 1

toupper(c) == IF c \in Range(Lower) THEN Upper[CHOOSE i \in 1..26 : Lower[i] = c] ELSE c

strtoupper(s) == [i \in 1..Len(s) |-> toupper(s[i])]

isxdigit(c) == is_digit(c) \/ toupper(c) \in {"A", "B", "C", "D", "E", "F"}

B16210(c) == IF is_digit(c) THEN DigitVal(c) ELSE (CHOOSE i \in 1..26 : Upper[i] = toupper(c)) + 9

\* the suffix of s that starts at pointer i
From(s, i) == SubSeq(s, i, Len(s))

\* strchr(s + i - 1, c) as an index, 0 for a null result; c = NUL finds the terminator
strchr(s, i, c) ==
  IF c = NUL THEN Len(s) + 1
  ELSE IF \E j \in i..Len(s) : s[j] = c
       THEN CHOOSE j \in i..Len(s) : s[j] = c /\ \A k \in i..(j - 1) : s[k] # c
       ELSE 0

\* strrchr for a byte other than NUL
strrchr(s, i, c) ==
  IF \E j \in i..Len(s) : s[j] = c
  THEN CHOOSE j \in i..Len(s) : s[j] = c /\ \A k \in (j + 1)..Len(s) : s[k] # c
  ELSE 0

\* strpbrk(s + i - 1, accept)
strpbrk(s, i, accept) ==
  IF \E j \in i..Len(s) : s[j] \in Range(accept)
  THEN CHOOSE j \in i..Len(s) : s[j] \in Range(accept) /\ \A k \in i..(j - 1) : s[k] \notin Range(accept)
  ELSE 0

\* strcspn(s + i - 1, reject)
strcspn(s, i, reject) ==
  LET j == strpbrk(s, i, reject) IN IF j = 0 THEN Len(s) - i + 1 ELSE j - i

\* strstr(s, needle) as an index, 0 for a null result
strstr(s, needle) ==
  LET hit(j) == j + Len(needle) - 1 <= Len(s) /\ SubSeq(s, j, j + Len(needle) - 1) = needle IN
  IF \E j \in 1..(Len(s) + 1) : hit(j)
  THEN CHOOSE j \in 1..(Len(s) + 1) : hit(j) /\ \A k \in 1..(j - 1) : ~hit(k)
  ELSE 0

\* strncasecmp(token, word, Len(word)) = 0
strncasecmp_eq(token, word) ==
  /\ Len(token) >= Len(word)
  /\ \A i \in 1..Len(word) : toupper(token[i]) = toupper(word[i])

\* strcasecmp(a, b) = 0
strcasecmp_eq(a, b) == Len(a) = Len(b) /\ strncasecmp_eq(a, b)

RECURSIVE ltrim(_)
ltrim(s) == IF s # <<>> /\ isspace(Head(s)) THEN ltrim(Tail(s)) ELSE s

RECURSIVE rtrim(_)
rtrim(s) == IF s # <<>> /\ isspace(s[Len(s)]) THEN rtrim(SubSeq(s, 1, Len(s) - 1)) ELSE s

trim_str(s) == rtrim(ltrim(s))

strip_newlines(s) == SelectSeq(s, LAMBDA c : c \notin {"\r", "\n"})

\* the concatenation of a sequence of strings
RECURSIVE FlattenRange(_, _, _)
FlattenRange(pieces, lo, hi) ==
  IF lo > hi THEN <<>>
  ELSE IF lo = hi THEN pieces[lo]
  ELSE FlattenRange(pieces, lo, (lo + hi) \div 2) \o FlattenRange(pieces, ((lo + hi) \div 2) + 1, hi)

Flatten(pieces) == FlattenRange(pieces, 1, Len(pieces))

count_matches(s1, c) == Cardinality({i \in 1..Len(s1) : s1[i] = c})

alloc_string(s) == s

RECURSIVE find_alpha_count_from(_, _)
find_alpha_count_from(s, i) ==
  IF i <= Len(s) /\ isspace(s[i]) THEN 1 + find_alpha_count_from(s, i + 1) ELSE 0

find_alpha_count(s, i) == find_alpha_count_from(s, i)

\* the new cursor: the first byte at or after i that is not a space
find_alpha(s, i) == i + find_alpha_count_from(s, i)

\* strtol / strtoull in base 10 on a token: [ok |-> digits were read up to the
\* end of the token, v |-> the value (for strtol, of the digits read)].  The numeric tokens the model draws are
\* short and unsigned, so ERANGE and strtoull's negation do not arise.
RECURSIVE DecVal(_, _)
DecVal(s, acc) == IF s = <<>> THEN acc ELSE DecVal(Tail(s), acc * 10 + DigitVal(Head(s)))

AllDigits(s) == s # <<>> /\ \A i \in 1..Len(s) : is_digit(s[i])

\* strtoull(tkn, &end, 10) with the callers' test that the whole token was
\* converted: [ok, v].  A token with a minus sign, which the library wraps
\* around 2^64, and a value beyond the checker's integers are not among the
\* inputs drawn.
strtoull(tkn) ==
  LET t == ltrim(tkn)
      u == IF t # <<>> /\ Head(t) = "+" THEN Tail(t) ELSE t
  IN IF AllDigits(u) THEN [ok |-> TRUE, v |-> DecVal(u, 0)] ELSE [ok |-> FALSE, v |-> 0]

strtol(tkn) ==
  LET t == ltrim(tkn)
      neg == t # <<>> /\ Head(t) = "-"
      u == IF t # <<>> /\ Head(t) \in {"+", "-"} THEN Tail(t) ELSE t
      n == Cardinality({i \in 1..Len(u) : \A k \in 1..i : is_digit(u[k])})
      v == DecVal(SubSeq(u, 1, n), 0)
  IN [ok |-> AllDigits(u), v |-> IF neg THEN 0 - v ELSE v]

\* decimal text of a natural number, zero-padded to at least w digits
RECURSIVE DecText(_)
DecText(n) == IF n < 10 THEN <<Digits[n + 1]>> ELSE DecText(n \div 10) \o <<Digits[(n % 10) + 1]>>

RECURSIVE Pad(_, _)
Pad(s, w) == IF Len(s) >= w THEN s ELSE Pad(<<"0">> \o s, w)

----------------------------------------------------------------------------
(* Validators *)

TYPE_IPINV == 0
TYPE_IPV4 == 1
TYPE_IPV6 == 2

\* inet_pton(AF_INET, s): four decimal octets 0..255 without leading zeros
RECURSIVE inet_pton4_from(_, _, _, _, _)
inet_pton4_from(s, i, octets, saw_digit, cur) ==
  IF i > Len(s) THEN octets = 4
  ELSE IF is_digit(s[i])
       THEN LET new == cur * 10 + DigitVal(s[i]) IN
            IF saw_digit /\ cur = 0 THEN FALSE
            ELSE IF new > 255 THEN FALSE
            ELSE IF ~saw_digit /\ octets + 1 > 4 THEN FALSE
            ELSE inet_pton4_from(s, i + 1, IF saw_digit THEN octets ELSE octets + 1, TRUE, new)
       ELSE IF s[i] = "." /\ saw_digit
            THEN IF octets = 4 THEN FALSE ELSE inet_pton4_from(s, i + 1, octets, FALSE, 0)
            ELSE FALSE

inet_pton4(s) == inet_pton4_from(s, 1, 0, FALSE, 0)

\* inet_pton(AF_INET6, s): tp counts the bytes written so far (of 16), colonp
\* records whether a "::" was seen, curtok is where the current group starts
RECURSIVE inet_pton6_from(_, _, _, _, _, _)
inet_pton6_from(s, i, tp, seen_xdigits, colonp, curtok) ==
  IF i > Len(s)
  THEN LET tp2 == IF seen_xdigits > 0 THEN tp + 2 ELSE tp IN
       /\ tp2 <= 16
       /\ IF colonp THEN tp2 # 16 ELSE tp2 = 16
  ELSE IF isxdigit(s[i])
       THEN seen_xdigits + 1 <= 4 /\ inet_pton6_from(s, i + 1, tp, seen_xdigits + 1, colonp, curtok)
       ELSE IF s[i] = ":"
            THEN IF seen_xdigits = 0
                 THEN ~colonp /\ inet_pton6_from(s, i + 1, tp, 0, TRUE, i + 1)
                 ELSE /\ i < Len(s)
                      /\ tp + 2 <= 16
                      /\ inet_pton6_from(s, i + 1, tp + 2, 0, colonp, i + 1)
            ELSE IF s[i] = "." /\ tp + 4 <= 16 /\ inet_pton4(From(s, curtok))
                 THEN IF colonp THEN tp + 4 # 16 ELSE tp + 4 = 16
                 ELSE FALSE

inet_pton6(s) ==
  IF s # <<>> /\ s[1] = ":"
  THEN At(s, 2) = ":" /\ inet_pton6_from(s, 2, 0, 0, FALSE, 2)
  ELSE inet_pton6_from(s, 1, 0, 0, FALSE, 1)

\* a mutation of the validation: the address family is not stored
invalid_ipaddr_untyped(s) ==
  [invalid |-> s = <<>> \/ ~(inet_pton4(s) \/ inet_pton6(s)), ipvx |-> TYPE_IPINV]

\* [invalid |-> the return value, ipvx |-> the value stored through the pointer]
invalid_ipaddr(s) ==
  IF s = <<>> THEN [invalid |-> TRUE, ipvx |-> TYPE_IPINV]
  ELSE IF inet_pton4(s) THEN [invalid |-> FALSE, ipvx |-> TYPE_IPV4]
  ELSE IF inet_pton6(s) THEN [invalid |-> FALSE, ipvx |-> TYPE_IPV6]
  ELSE [invalid |-> TRUE, ipvx |-> TYPE_IPINV]

\* the indices of codes[600] that hold a description, by the rules of C
\* designated initializers (an element without a designator follows the
\* previous one)
codes ==
  {0, 100, 101, 200, 201, 202, 203, 204, 205, 206, 207, 208, 218,
   300, 301, 302, 303, 304, 305, 307, 308,
   400, 401, 402, 403, 404, 405, 406, 407, 408, 409, 410, 411, 412, 413, 414,
   415, 416, 417, 418, 419, 420, 421, 422, 423, 424, 426, 428, 429, 430, 431,
   440, 444, 449, 450, 451, 460, 461, 462, 494, 495, 496, 497, 498, 499,
   500, 501, 502, 503, 504, 505, 509, 520, 521, 522, 523, 524, 525, 526, 527,
   528, 530, 540, 561, 598, 599}

\* the code that the description stored at index n of codes[] is written
\* for (n an index that holds a description): STATUS_CODE_463 and
\* STATUS_CODE_464 follow [460] and STATUS_CODE_529 follows STATUS_CODE_527
\* without a designator
codes_at(n) ==
  CASE n = 461 -> 463
    [] n = 462 -> 464
    [] n = 528 -> 529
    [] OTHER -> n

\* the codes n for which a description STATUS_CODE_n is defined and used in codes[]
StatusCodeDefined == (codes \ {461, 462, 528}) \cup {463, 464, 529}

\* the indices of code_type[] (all six are set)
code_type == 0..5

is_valid_http_status_lax(code) == code >= 0 /\ code <= 599 /\ code \div 100 \in code_type

is_valid_http_status(code) ==
  code >= 0 /\ code <= 599 /\ code \div 100 \in code_type /\ code \in codes

http_methods ==
  << <<"O","P","T","I","O","N","S">>, <<"G","E","T">>, <<"H","E","A","D">>, <<"P","O","S","T">>, <<"P","U","T">>, <<"D","E","L","E","T","E">>, <<"T","R","A","C","E">>, <<"C","O","N","N","E","C","T">>,
     <<"P","A","T","C","H">>, <<"S","E","A","R","C","H">>, <<"P","R","O","P","F","I","N","D">>, <<"P","R","O","P","P","A","T","C","H">>, <<"M","K","C","O","L">>, <<"C","O","P","Y">>, <<"M","O","V","E">>,
     <<"L","O","C","K">>, <<"U","N","L","O","C","K">>, <<"V","E","R","S","I","O","N","-","C","O","N","T","R","O","L">>, <<"R","E","P","O","R","T">>, <<"C","H","E","C","K","O","U","T">>, <<"C","H","E","C","K","I","N">>,
     <<"U","N","C","H","E","C","K","O","U","T">>, <<"M","K","W","O","R","K","S","P","A","C","E">>, <<"U","P","D","A","T","E">>, <<"L","A","B","E","L">>, <<"M","E","R","G","E">>,
     <<"B","A","S","E","L","I","N","E","-","C","O","N","T","R","O","L">>, <<"M","K","A","C","T","I","V","I","T","Y">>, <<"O","R","D","E","R","P","A","T","C","H">> >>

http_protocols == << <<"H","T","T","P","/","1",".","0">>, <<"H","T","T","P","/","1",".","1">>, <<"H","T","T","P","/","2">>, <<"H","T","T","P","/","3">> >>

\* the first entry of table that token starts with, compared without case; NULL if none
FirstPrefix(table, token) ==
  IF \E i \in 1..Len(table) : strncasecmp_eq(token, table[i])
  THEN Some(table[CHOOSE i \in 1..Len(table) :
                    /\ strncasecmp_eq(token, table[i])
                    /\ \A k \in 1..(i - 1) : ~strncasecmp_eq(token, table[k])])
  ELSE NULL

extract_method(token) == FirstPrefix(http_methods, token)

\* a mutation of the whitelist lookup: the token itself is handed back
extract_protocol_verbatim(token) == Some(token)

extract_protocol(token) == FirstPrefix(http_protocols, token)

is_cache_hit(tkn) ==
  \E w \in {<<"M","I","S","S">>, <<"B","Y","P","A","S","S">>, <<"E","X","P","I","R","E","D">>, <<"S","T","A","L","E">>, <<"U","P","D","A","T","I","N","G">>, <<"R","E","V","A","L","I","D","A","T","E","D">>, <<"H","I","T">>} :
    strcasecmp_eq(w, tkn)

----------------------------------------------------------------------------
(* URL decoding and the request line *)

\* the byte with code n (0..255): printable ASCII as itself, any other byte
\* as an atom that names it
ByteChar ==
  <<
     NUL, "\\x01", "\\x02", "\\x03", "\\x04", "\\x05", "\\x06", "\\x07",
     "\\x08", "\t", "\n", "\\x0B", "\f", "\r", "\\x0E", "\\x0F",
     "\\x10", "\\x11", "\\x12", "\\x13", "\\x14", "\\x15", "\\x16", "\\x17",
     "\\x18", "\\x19", "\\x1A", "\\x1B", "\\x1C", "\\x1D", "\\x1E", "\\x1F",
     " ", "!", "\"", "#", "$", "%", "&", "'",
     "(", ")", "*", "+", ",", "-", ".", "/",
     "0", "1", "2", "3", "4", "5", "6", "7",
     "8", "9", ":", ";", "<", "=", ">", "?",
     "@", "A", "B", "C", "D", "E", "F", "G",
     "H", "I", "J", "K", "L", "M", "N", "O",
     "P", "Q", "R", "S", "T", "U", "V", "W",
     "X", "Y", "Z", "[", "\\", "]", "^", "_",
     "\\x60", "a", "b", "c", "d", "e", "f", "g",
     "h", "i", "j", "k", "l", "m", "n", "o",
     "p", "q", "r", "s", "t", "u", "v", "w",
     "x", "y", "z", "{", "|", "}", "~", "\\x7F",
     "\\x80", "\\x81", "\\x82", "\\x83", "\\x84", "\\x85", "\\x86", "\\x87",
     "\\x88", "\\x89", "\\x8A", "\\x8B", "\\x8C", "\\x8D", "\\x8E", "\\x8F",
     "\\x90", "\\x91", "\\x92", "\\x93", "\\x94", "\\x95", "\\x96", "\\x97",
     "\\x98", "\\x99", "\\x9A", "\\x9B", "\\x9C", "\\x9D", "\\x9E", "\\x9F",
     "\\xA0", "\\xA1", "\\xA2", "\\xA3", "\\xA4", "\\xA5", "\\xA6", "\\xA7",
     "\\xA8", "\\xA9", "\\xAA", "\\xAB", "\\xAC", "\\xAD", "\\xAE", "\\xAF",
     "\\xB0", "\\xB1", "\\xB2", "\\xB3", "\\xB4", "\\xB5", "\\xB6", "\\xB7",
     "\\xB8", "\\xB9", "\\xBA", "\\xBB", "\\xBC", "\\xBD", "\\xBE", "\\xBF",
     "\\xC0", "\\xC1", "\\xC2", "\\xC3", "\\xC4", "\\xC5", "\\xC6", "\\xC7",
     "\\xC8", "\\xC9", "\\xCA", "\\xCB", "\\xCC", "\\xCD", "\\xCE", "\\xCF",
     "\\xD0", "\\xD1", "\\xD2", "\\xD3", "\\xD4", "\\xD5", "\\xD6", "\\xD7",
     "\\xD8", "\\xD9", "\\xDA", "\\xDB", "\\xDC", "\\xDD", "\\xDE", "\\xDF",
     "\\xE0", "\\xE1", "\\xE2", "\\xE3", "\\xE4", "\\xE5", "\\xE6", "\\xE7",
     "\\xE8", "\\xE9", "\\xEA", "\\xEB", "\\xEC", "\\xED", "\\xEE", "\\xEF",
     "\\xF0", "\\xF1", "\\xF2", "\\xF3", "\\xF4", "\\xF5", "\\xF6", "\\xF7",
     "\\xF8", "\\xF9", "\\xFA", "\\xFB", "\\xFC", "\\xFD", "\\xFE", "\\xFF"
  >>

\* a buffer read as a C string ends at its first NUL byte
CString(b) ==
  IF \E i \in 1..Len(b) : b[i] = NUL
  THEN SubSeq(b, 1, (CHOOSE i \in 1..Len(b) : b[i] = NUL /\ \A k \in 1..(i - 1) : b[k] # NUL) - 1)
  ELSE b

\* the bytes decode_hex writes: an escape is a percent sign followed by two
\* hexadecimal digits, so two escapes never overlap and each byte of url is
\* either inside an escape or copied
decode_hex_from(url, i) ==
  LET esc(k) == k >= 1 /\ url[k] = "%" /\ isxdigit(At(url, k + 1)) /\ isxdigit(At(url, k + 2))
  IN Flatten([k \in 1..Len(url) |->
       IF k < i \/ (k > 1 /\ esc(k - 1)) \/ (k > 2 /\ esc(k - 2)) THEN <<>>
       ELSE IF esc(k) THEN <<ByteChar[B16210(url[k + 1]) * 16 + B16210(url[k + 2]) + 1]>>
       ELSE <<url[k]>>])

\* the C string left in out
decode_hex(url) == CString(decode_hex_from(url, 1))

\* decode_url with the second pass left out
decode_url_once(url, double_decode) ==
  IF url = <<>> THEN NULL ELSE Some(trim_str(strip_newlines(decode_hex(url))))

\* NULL for an empty url, else Some(decoded)
decode_url(url, double_decode) ==
  LET decoded(out) == Some(trim_str(strip_newlines(out)))
      again(once) == decoded(IF double_decode THEN decode_hex(once) ELSE once)
  IN IF url = <<>> THEN NULL ELSE again(decode_hex(url))

\* parse_req that refuses a token without a method as it refuses the others
parse_req_refusing(tkn, m0, p0, cf) ==
  LET decoded(request, dreq) == IF dreq = NULL \/ Val(dreq) = <<>> THEN request ELSE Val(dreq)
      \* the request text is decoded at one place: q holds it with the method
      \* and protocol to return, or no request when the line is refused
      result(q) ==
        IF q.request = NULL
        THEN [req |-> alloc_string(<<"-">>), method |-> m0, protocol |-> p0]
        ELSE [req |-> decoded(Val(q.request), decode_url(Val(q.request), cf.double_decode)),
              method |-> q.method, protocol |-> q.protocol]
      split(meth, req, sp, proto) ==
        IF sp = 0 \/ proto = NULL \/ sp - req <= 0
        THEN [request |-> NULL, method |-> m0, protocol |-> p0]
        ELSE [request |-> Some(SubSeq(tkn, req + 1, req + (sp - req))),
              method |-> IF cf.append_method THEN Some(strtoupper(Val(meth))) ELSE m0,
              protocol |-> IF cf.append_protocol THEN Some(strtoupper(Val(proto))) ELSE p0]
      spaced(meth, req, sp) ==
        split(meth, req, sp, IF sp = 0 THEN NULL ELSE extract_protocol(From(tkn, sp + 1)))
      with_method(meth) ==
        IF meth = NULL THEN [request |-> NULL, method |-> m0, protocol |-> p0]
        ELSE spaced(meth, Len(Val(meth)) + 1, strrchr(tkn, Len(Val(meth)) + 1, " "))
  IN result(with_method(extract_method(tkn)))

\* [req |-> the returned request, method, protocol |-> the two out-parameters];
\* m0 and p0 are the values the out-parameters hold on entry
parse_req(tkn, m0, p0, cf) ==
  LET decoded(request, dreq) == IF dreq = NULL \/ Val(dreq) = <<>> THEN request ELSE Val(dreq)
      \* the request text is decoded at one place: q holds it with the method
      \* and protocol to return, or no request when the line is refused
      result(q) ==
        IF q.request = NULL
        THEN [req |-> alloc_string(<<"-">>), method |-> m0, protocol |-> p0]
        ELSE [req |-> decoded(Val(q.request), decode_url(Val(q.request), cf.double_decode)),
              method |-> q.method, protocol |-> q.protocol]
      split(meth, req, sp, proto) ==
        IF sp = 0 \/ proto = NULL \/ sp - req <= 0
        THEN [request |-> NULL, method |-> m0, protocol |-> p0]
        ELSE [request |-> Some(SubSeq(tkn, req + 1, req + (sp - req))),
              method |-> IF cf.append_method THEN Some(strtoupper(Val(meth))) ELSE m0,
              protocol |-> IF cf.append_protocol THEN Some(strtoupper(Val(proto))) ELSE p0]
      spaced(meth, req, sp) ==
        split(meth, req, sp, IF sp = 0 THEN NULL ELSE extract_protocol(From(tkn, sp + 1)))
      with_method(meth) ==
        IF meth = NULL THEN [request |-> Some(tkn), method |-> m0, protocol |-> p0]
        ELSE spaced(meth, Len(Val(meth)) + 1, strrchr(tkn, Len(Val(meth)) + 1, " "))
  IN result(with_method(extract_method(tkn)))

----------------------------------------------------------------------------
(* Dates and times *)

month_name ==
  << <<"J","a","n","u","a","r","y">>, <<"F","e","b","r","u","a","r","y">>, <<"M","a","r","c","h">>, <<"A","p","r","i","l">>, <<"M","a","y">>, <<"J","u","n","e">>, <<"J","u","l","y">>,
     <<"A","u","g","u","s","t">>, <<"S","e","p","t","e","m","b","e","r">>, <<"O","c","t","o","b","e","r">>, <<"N","o","v","e","m","b","e","r">>, <<"D","e","c","e","m","b","e","r">> >>

ab_month_name ==
  << <<"J","a","n">>, <<"F","e","b">>, <<"M","a","r">>, <<"A","p","r">>, <<"M","a","y">>, <<"J","u","n">>, <<"J","u","l">>, <<"A","u","g">>, <<"S","e","p">>,
     <<"O","c","t">>, <<"N","o","v">>, <<"D","e","c">> >>

\* strptime's get_number(from, to, n) at pointer rp: leading blanks are
\* skipped, then at most n digits are read while the value can still grow
RECURSIVE get_digits(_, _, _, _, _)
get_digits(s, rp, val, n, to) ==
  LET v == val * 10 + DigitVal(s[rp]) IN
  IF n - 1 > 0 /\ v * 10 <= to /\ is_digit(At(s, rp + 1))
  THEN get_digits(s, rp + 1, v, n - 1, to)
  ELSE [val |-> v, rp |-> rp + 1]

RECURSIVE skip_blanks(_, _)
skip_blanks(s, rp) == IF At(s, rp) = " " THEN skip_blanks(s, rp + 1) ELSE rp

get_number(s, rp0, from, to, n) ==
  LET number(r) == [ok |-> r.val >= from /\ r.val <= to, val |-> r.val, rp |-> r.rp]
      digits(rp) == IF ~is_digit(At(s, rp)) THEN [ok |-> FALSE, val |-> 0, rp |-> rp]
                    ELSE number(get_digits(s, rp, 0, n, to))
  IN digits(skip_blanks(s, rp0))

\* the month whose full or abbreviated name the input starts with at rp
match_month(s, rp) ==
  LET full(c) == strncasecmp_eq(From(s, rp), month_name[c])
      abbr(c) == strncasecmp_eq(From(s, rp), ab_month_name[c])
      first(ms) == CHOOSE c \in ms : \A k \in ms : c <= k
      month(c, is_full) ==
        [ok |-> TRUE, mon |-> c - 1,
         rp |-> rp + (IF is_full THEN Len(month_name[c]) ELSE Len(ab_month_name[c]))]
      found(ms) == IF ms = {} THEN [ok |-> FALSE, mon |-> 0, rp |-> rp]
                   ELSE month(first(ms), first(ms) \in {c \in ms : full(c)})
  IN found({c \in 1..12 : full(c) \/ abbr(c)})

\* the civil date of the day z days after 1970-01-01: [y, m, d]
civil_from_days(z) ==
  LET era == (z + 719468) \div 146097
      doe == (z + 719468) - era * 146097
      yoe == (doe - doe \div 1460 + doe \div 36524 - doe \div 146096) \div 365
      doy == doe - (365 * yoe + yoe \div 4 - yoe \div 100)
      mp == (5 * doy + 2) \div 153
      m == IF mp < 10 THEN mp + 3 ELSE mp - 9
  IN [y |-> yoe + era * 400 + (IF m <= 2 THEN 1 ELSE 0), m |-> m,
      d |-> doy - (153 * mp + 2) \div 5 + 1]

\* localtime_r(3) in a zone gmtoff seconds east of UTC: the broken-down time
\* of t seconds after the epoch
localtime_r(t, gmtoff) ==
  LET date(c, r) ==
        [tm_year |-> c.y - 1900, tm_mon |-> c.m - 1, tm_mday |-> c.d,
         tm_hour |-> r \div 3600, tm_min |-> (r % 3600) \div 60, tm_sec |-> r % 60]
  IN date(civil_from_days((t + gmtoff) \div 86400), (t + gmtoff) % 86400)

\* the run of digits strptime reads for %s: [val, rp]
RECURSIVE get_secs(_, _, _)
get_secs(s, rp, secs) ==
  IF is_digit(At(s, rp)) THEN get_secs(s, rp + 1, secs * 10 + DigitVal(s[rp]))
  ELSE [val |-> secs, rp |-> rp]

\* strptime(3) for the conversions d m Y H M S b B h s and literal text, in a
\* process whose zone is gmtoff seconds east of UTC:
\* [end |-> the returned pointer, 0 for NULL; tm |-> the fields it has set]
RECURSIVE strptime_from(_, _, _, _, _, _)
strptime_from(s, rp, fmt, fp, tm, gmtoff) ==
  LET c == At(fmt, fp + 1)
      \* get_number's from, to and n for the numeric conversions
      range == CASE c = "d" -> <<1, 31, 2>>
                 [] c = "m" -> <<1, 12, 2>>
                 [] c = "Y" -> <<0, 9999, 4>>
                 [] c = "H" -> <<0, 23, 2>>
                 [] c = "M" -> <<0, 59, 2>>
                 [] c = "S" -> <<0, 61, 2>>
      set(r) == CASE c = "d" -> [tm EXCEPT !.tm_mday = r.val]
                  [] c = "m" -> [tm EXCEPT !.tm_mon = r.val - 1]
                  [] c = "Y" -> [tm EXCEPT !.tm_year = r.val - 1900]
                  [] c = "H" -> [tm EXCEPT !.tm_hour = r.val]
                  [] c = "M" -> [tm EXCEPT !.tm_min = r.val]
                  [] c = "S" -> [tm EXCEPT !.tm_sec = r.val]
                  [] OTHER -> [tm EXCEPT !.tm_mon = r.mon]
      next(r) == IF r.ok THEN strptime_from(s, r.rp, fmt, fp + 2, set(r), gmtoff)
                 ELSE [end |-> 0, tm |-> tm]
      secs(r) == strptime_from(s, r.rp, fmt, fp + 2, localtime_r(r.val, gmtoff), gmtoff)
  IN
  IF fp > Len(fmt) THEN [end |-> rp, tm |-> tm]
  ELSE IF isspace(fmt[fp])
       THEN strptime_from(s, find_alpha(s, rp), fmt, fp + 1, tm, gmtoff)
  ELSE IF fmt[fp] # "%"
       THEN IF At(s, rp) = fmt[fp] THEN strptime_from(s, rp + 1, fmt, fp + 1, tm, gmtoff)
            ELSE [end |-> 0, tm |-> tm]
  ELSE IF c \in {"d", "m", "Y", "H", "M", "S"}
       THEN next(get_number(s, rp, range[1], range[2], range[3]))
  ELSE IF c \in {"b", "B", "h"} THEN next(match_month(s, rp))
  ELSE IF c = "s" /\ is_digit(At(s, rp)) THEN secs(get_secs(s, rp, 0))
  ELSE IF c = "%" /\ At(s, rp) = "%" THEN strptime_from(s, rp + 1, fmt, fp + 2, tm, gmtoff)
  ELSE [end |-> 0, tm |-> tm]

strptime(s, fmt, tm, gmtoff) == strptime_from(s, 1, fmt, 1, tm, gmtoff)

\* strftime(3) for the conversions Y m d H M S and literal text
RECURSIVE strftime_from(_, _, _)
strftime_from(fmt, fp, tm) ==
  IF fp > Len(fmt) THEN <<>>
  ELSE IF fmt[fp] # "%" THEN <<fmt[fp]>> \o strftime_from(fmt, fp + 1, tm)
  ELSE LET c == At(fmt, fp + 1)
           rest == strftime_from(fmt, fp + 2, tm)
       IN CASE c = "Y" -> DecText(tm.tm_year + 1900) \o rest
            [] c = "m" -> Pad(DecText(tm.tm_mon + 1), 2) \o rest
            [] c = "d" -> Pad(DecText(tm.tm_mday), 2) \o rest
            [] c = "H" -> Pad(DecText(tm.tm_hour), 2) \o rest
            [] c = "M" -> Pad(DecText(tm.tm_min), 2) \o rest
            [] c = "S" -> Pad(DecText(tm.tm_sec), 2) \o rest
            [] OTHER -> rest

\* the text written and the count returned: 0 when it does not fit in max bytes
strftime(max, fmt, tm) ==
  LET written(out) == IF Len(out) + 1 > max THEN [n |-> 0, buf |-> <<>>]
                      ELSE [n |-> Len(out), buf |-> out]
  IN written(strftime_from(fmt, 1, tm))

DATE_LEN == 11
TIME_LEN == 9

\* Some(text) on success, NULL when strftime writes nothing
set_date(cf, tm) ==
  LET date(r) == IF r.n <= 0 THEN NULL ELSE Some(r.buf) IN
  date(strftime(DATE_LEN, Val(cf.date_num_format), tm))

set_time(tm) ==
  LET time(r) == IF r.n <= 0 THEN NULL ELSE Some(r.buf) IN
  time(strftime(TIME_LEN, <<"%","H",":","%","M",":","%","S">>, tm))

\* the zone a TZ name selects, in seconds east of UTC; a name the zone
\* database does not hold selects UTC
zone_offset(name) ==
  CASE name = <<"A","s","i","a","/","S","h","a","n","g","h","a","i">> -> 28800
    [] name = <<"P","a","c","i","f","i","c","/","H","o","n","o","l","u","l","u">> -> -36000
    [] OTHER -> 0

\* the number of days from 1970-01-01 to the civil date y-m-d
days_from_civil(y, m, d) ==
  LET yy == IF m <= 2 THEN y - 1 ELSE y
      era == yy \div 400
      yoe == yy - era * 400
      doy == (153 * (IF m > 2 THEN m - 3 ELSE m + 9) + 2) \div 5 + d - 1
      doe == yoe * 365 + yoe \div 4 - yoe \div 100 + doy
  IN era * 146097 + doe - 719468

\* timegm(&tmp) - src->tm_gmtoff, where tm_gmtoff is 0 in every tm that
\* reaches the call: the instant as [days |-> whole days since the epoch,
\* secs |-> seconds into that day], the two halves of a 64-bit time_t
tm2time(src) ==
  [days |-> days_from_civil(src.tm_year + 1900, src.tm_mon + 1, src.tm_mday),
   secs |-> src.tm_hour * 3600 + src.tm_min * 60 + src.tm_sec]

\* [err |-> the return value, tm |-> the broken-down time left in *tm,
\* TZ |-> the zone of the process after the call], in a process whose zone is
\* gmtoff seconds east of UTC and with conf.tz_name = tz_name; every caller
\* passes tz = 1.  No configuration drawn here sets one of the formats %f and
\* %*.  With a zone name configured the parsed fields are read as UTC, set_tz
\* installs the zone and localtime_r converts the instant, unless tm2time
\* has returned -1.
str_to_time(str, fmt, tm, gmtoff, tz_name) ==
  LET \* localtime_r(&t, tm) in the zone off seconds east of UTC
      local(c, r) ==
        [tm_year |-> c.y - 1900, tm_mon |-> c.m - 1, tm_mday |-> c.d,
         tm_hour |-> r \div 3600, tm_min |-> (r % 3600) \div 60, tm_sec |-> r % 60]
      shifted(t, off) ==
        local(civil_from_days(t.days + (t.secs + off) \div 86400), (t.secs + off) % 86400)
      parsed(r) == IF r.end = 0 \/ r.end <= Len(str) THEN [err |-> 1, tm |-> r.tm, TZ |-> gmtoff]
                   ELSE IF tz_name = NULL \/ tm2time(r.tm) = [days |-> -1, secs |-> 86399]
                        THEN [err |-> 0, tm |-> r.tm, TZ |-> gmtoff]
                   ELSE [err |-> 0, tm |-> shifted(tm2time(r.tm), zone_offset(Val(tz_name))),
                         TZ |-> zone_offset(Val(tz_name))]
  IN IF str = <<>> \/ fmt = NULL \/ Val(fmt) = <<>> THEN [err |-> 1, tm |-> tm, TZ |-> gmtoff]
     ELSE parsed(strptime(str, Val(fmt), tm, gmtoff))

str2int(date) == LET int(r) == IF r.ok THEN r.v ELSE -1 IN int(strtol(date))

set_tm_dt_logitem(dt, tm) ==
  [dt EXCEPT !.tm_year = tm.tm_year, !.tm_mon = tm.tm_mon, !.tm_mday = tm.tm_mday]

set_tm_tm_logitem(dt, tm) ==
  [dt EXCEPT !.tm_hour = tm.tm_hour, !.tm_min = tm.tm_min, !.tm_sec = tm.tm_sec]

----------------------------------------------------------------------------
(* The record and the tokenizer *)

ERR_SPEC_TOKN_NUL == 1
ERR_SPEC_TOKN_INV == 2
ERR_SPEC_SFMT_MIS == 3
ERR_SPEC_LINE_INV == 4

REF_SITE_LEN == 511

init_log_item ==
  [agent |-> NULL, date |-> NULL, errstr |-> NULL, host |-> NULL, keyphrase |-> NULL,
   method |-> NULL, protocol |-> NULL, qstr |-> NULL, ref |-> NULL, req |-> NULL,
   resp_size |-> 0, serve_time |-> 0, status |-> -1, time |-> NULL, vhost |-> NULL,
   userid |-> NULL, cache_status |-> NULL, mime_type |-> NULL, tls_type |-> NULL,
   tls_cypher |-> NULL, site |-> <<>>, numdate |-> 0, type_ip |-> TYPE_IPINV,
   dt |-> [tm_year |-> 2000, tm_mon |-> 1, tm_mday |-> 1,
           tm_hour |-> 0, tm_min |-> 0, tm_sec |-> 0]]

\* the delimiter buffer filled for the specifier at fmt[p]
get_delim(fmt, p) ==
  IF At(fmt, p) = NUL \/ At(fmt, p + 1) = NUL THEN <<>> ELSE <<fmt[p + 1]>>

\* parsed_string moving the cursor one byte further, past the byte at pch
parsed_string_past(s, pch, str, move_ptr) ==
  [tkn |-> Some(trim_str(SubSeq(s, str, pch - 1))),
   str |-> IF move_ptr THEN pch + 1 ELSE str]

\* [tkn |-> the token, str |-> the cursor after the call]
parsed_string(s, pch, str, move_ptr) ==
  [tkn |-> Some(trim_str(SubSeq(s, str, pch - 1))),
   str |-> IF move_ptr THEN pch ELSE str]

\* parse_string with every byte visited: a backslash steps over nothing
parse_string_no_escape(s, str, delims, cnt) ==
  LET p == IF delims = <<>> THEN 0 ELSE strpbrk(s, str, delims)
      end == IF delims = <<>> THEN NUL ELSE s[p]
      last == Len(s) + 1
      run(i) == i - 1 - (CHOOSE j \in (str - 1)..(i - 1) :
                           /\ (j = str - 1 \/ s[j] # "\\")
                           /\ \A k \in (j + 1)..(i - 1) : s[k] = "\\")
      visited(i) == run(i) >= 0
      idx(i) == Cardinality({k \in str..i : At(s, k) = end /\ visited(k)})
      returns(i) == \/ (i = last /\ visited(i))
                    \/ (At(s, i) = end /\ visited(i) /\ idx(i) = cnt)
  IN IF delims # <<>> /\ p = 0 THEN [tkn |-> NULL, str |-> str]
     ELSE IF \E i \in str..last : returns(i)
          THEN parsed_string(s, CHOOSE i \in str..last :
                                  returns(i) /\ \A k \in str..(i - 1) : ~returns(k),
                             str, TRUE)
          ELSE [tkn |-> NULL, str |-> str]

\* [tkn |-> NULL or Some(token), str |-> the cursor after the call].  The
\* do-while loop visits a byte unless an odd run of backslashes precedes it
\* (a backslash steps over the byte that follows); it returns at the first
\* visited byte that is the cnt-th visited delimiter or the terminator, and
\* returns NULL when a visited backslash is the last byte.
parse_string(s, str, delims, cnt) ==
  LET p == IF delims = <<>> THEN 0 ELSE strpbrk(s, str, delims)
      end == IF delims = <<>> THEN NUL ELSE s[p]
      last == Len(s) + 1
      run(i) == i - 1 - (CHOOSE j \in (str - 1)..(i - 1) :
                           /\ (j = str - 1 \/ s[j] # "\\")
                           /\ \A k \in (j + 1)..(i - 1) : s[k] = "\\")
      visited(i) == run(i) % 2 = 0
      idx(i) == Cardinality({k \in str..i : At(s, k) = end /\ visited(k)})
      returns(i) == \/ (i = last /\ visited(i))
                    \/ (At(s, i) = end /\ visited(i) /\ idx(i) = cnt)
  IN IF delims # <<>> /\ p = 0 THEN [tkn |-> NULL, str |-> str]
     ELSE IF \E i \in str..last : returns(i)
          THEN parsed_string(s, CHOOSE i \in str..last :
                                  returns(i) /\ \A k \in str..(i - 1) : ~returns(k),
                             str, TRUE)
          ELSE [tkn |-> NULL, str |-> str]

\* the cursor after skipping to the byte that follows the specifier in the template
handle_default_case_token(s, str, fmt, p) ==
  LET pch == strchr(s, str, At(fmt, p + 1)) IN IF pch # 0 THEN pch ELSE str

\* the message: the printf format and its arguments
spec_err_msg(code, spec, tkn) ==
  LET t == IF tkn = NULL THEN <<"-">> ELSE Val(tkn) IN
  CASE code = ERR_SPEC_TOKN_NUL ->
         Some([fmt |-> "Token for '%%%c' specifier is NULL.", args |-> <<spec>>])
    [] code = ERR_SPEC_TOKN_INV ->
         Some([fmt |-> "Token '%s' doesn't match specifier '%%%c'", args |-> <<t, spec>>])
    [] code = ERR_SPEC_SFMT_MIS ->
         Some([fmt |-> "Missing braces '%s' and ignore chars for specifier '%%%c'",
               args |-> <<t, spec>>])
    [] code = ERR_SPEC_LINE_INV ->
         Some([fmt |-> "Incompatible format due to early parsed line ending '\\0'.",
               args |-> <<>>])
    [] OTHER -> NULL

\* [li |-> the record with the message stored, code |-> the return value]
spec_err(li, code, spec, tkn) ==
  [li |-> [li EXCEPT !.errstr = spec_err_msg(code, spec, tkn)], code |-> code]

char_replace(s, o, n) == [i \in 1..Len(s) |-> IF s[i] = o THEN n ELSE s[i]]

GoogleHosts ==
  { <<"h","t","t","p",":","/","/","w","w","w",".","g","o","o","g","l","e",".">>, <<"h","t","t","p",":","/","/","w","e","b","c","a","c","h","e",".","g","o","o","g","l","e","u","s","e","r","c","o","n","t","e","n","t",".","c","o","m","/">>,
    <<"h","t","t","p",":","/","/","t","r","a","n","s","l","a","t","e",".","g","o","o","g","l","e","u","s","e","r","c","o","n","t","e","n","t",".","c","o","m","/">>, <<"h","t","t","p","s",":","/","/","w","w","w",".","g","o","o","g","l","e",".">>,
    <<"h","t","t","p","s",":","/","/","w","e","b","c","a","c","h","e",".","g","o","o","g","l","e","u","s","e","r","c","o","n","t","e","n","t",".","c","o","m","/">>,
    <<"h","t","t","p","s",":","/","/","t","r","a","n","s","l","a","t","e",".","g","o","o","g","l","e","u","s","e","r","c","o","n","t","e","n","t",".","c","o","m","/">> }

\* [ref |-> the referrer buffer after the call (the function cuts it in place),
\*  keyphrase |-> Some(keyphrase) or NULL when none was assigned]
extract_keyphrase(ref, cf) ==
  LET none == [ref |-> ref, keyphrase |-> NULL]
      at(n) == strstr(ref, n)
      decoded(ref2, referer) ==
        IF referer = NULL \/ Val(referer) = <<>> THEN [ref |-> ref2, keyphrase |-> NULL]
        ELSE [ref |-> ref2,
              keyphrase |-> Some(trim_str(char_replace(Val(referer), "+", " ")))]
      \* the referrer cut at the end of the keyphrase that begins at r
      cut(r, ref2) == decoded(ref2, decode_url(From(ref2, r), cf.double_decode))
      ends(r, amp, enc) ==
        cut(r, IF amp # 0 THEN SubSeq(ref, 1, amp - 1)
               ELSE IF enc # 0 THEN SubSeq(ref, 1, r + enc - 2)
               ELSE ref)
      begins(r, encoded) ==
        IF r = 0 THEN none
        ELSE ends(r, IF encoded THEN 0 ELSE strchr(ref, r, "&"),
                  IF encoded THEN strstr(From(ref, r), <<"%","2","6">>) ELSE 0)
      cache(c, pch) == IF pch # 0 THEN pch + 1 ELSE c
      \* the positions of the markers "/+", "q=cache:", "&q=", "?q=" and of
      \* the encoded "&q=" and "?q="
      markers(a, c, q1, q2, e1, e2) ==
        begins(IF a # 0 THEN a + 2
               ELSE IF c # 0 THEN cache(c, strchr(ref, c, "+"))
               ELSE IF q1 # 0 THEN q1 + 3
               ELSE IF q2 # 0 THEN q2 + 3
               ELSE IF e1 # 0 THEN e1 + 7
               ELSE IF e2 # 0 THEN e2 + 7
               ELSE 0,
               a = 0 /\ c = 0 /\ q1 = 0 /\ q2 = 0)
  IN IF \A g \in GoogleHosts : at(g) = 0 THEN none
     ELSE IF at(<<"/","+","&">>) # 0 THEN none
     ELSE markers(at(<<"/","+">>), at(<<"q","=","c","a","c","h","e",":">>), at(<<"&","q","=">>), at(<<"?","q","=">>), at(<<"%","2","6","q","%","3","D">>),
                  at(<<"%","3","F","q","%","3","D">>))

\* the text left in host (site); prev when nothing is written
extract_referer_site(referer, prev) ==
  LET site(begin, len) ==
        IF len = 0 THEN prev
        ELSE SubSeq(referer, begin, begin + (IF len >= REF_SITE_LEN THEN REF_SITE_LEN ELSE len) - 1)
      ended(begin, e) == site(begin, IF e # 0 THEN e - begin ELSE Len(referer) - begin + 1)
      begun(b) == IF referer = <<>> \/ b = 0 THEN prev
                  ELSE ended(b + 2, strpbrk(referer, b + 2, <<"/","?">>))
  IN begun(strstr(referer, <<"/","/">>))

----------------------------------------------------------------------------
(* parse_specifier *)

MILS == 1000
SECS == 1000000

MAX(a, b) == IF a > b THEN a ELSE b

\* strtod on a token of the form digits[.digits], in microseconds (the
\* fraction beyond the sixth digit is dropped): [ok, us]
RECURSIVE FracMicros(_, _)
FracMicros(f, w) ==
  IF w = 0 THEN 0
  ELSE (IF f = <<>> THEN 0 ELSE DigitVal(Head(f))) * (10 ^ (w - 1))
       + FracMicros(IF f = <<>> THEN <<>> ELSE Tail(f), w - 1)

strtod_micros(tkn) ==
  LET dot == strchr(tkn, 1, ".")
      ip == SubSeq(tkn, 1, dot - 1)
      fp == SubSeq(tkn, dot + 1, Len(tkn))
  IN IF (ip = <<>> \/ AllDigits(ip)) /\ (fp = <<>> \/ AllDigits(fp)) /\ (ip # <<>> \/ fp # <<>>)
     THEN [ok |-> TRUE, us |-> DecVal(ip, 0) * SECS + FracMicros(fp, 6)]
     ELSE [ok |-> FALSE, us |-> 0]

\* the %s case after the token is read: [bad |-> the token is refused,
\* status |-> the value stored in the record]
parse_status(tkn, cf) ==
  LET status(r) ==
        [bad |-> ~r.ok \/ (~cf.no_strict_status /\ ~is_valid_http_status(r.v)), status |-> r.v]
  IN status(strtol(tkn))

\* a mutation of the unit conversion: the number is stored as it is read
serve_time_of_raw(c, tkn) ==
  LET time(r) == IF r.ok THEN r.v ELSE 0 IN time(strtoull(tkn))

\* the value %L, %T, %D or %n stores in serve_time for a token
serve_time_of(c, tkn) ==
  LET micros(d) == IF d.ok THEN d.us ELSE 0
      time(r) ==
        CASE c = "L" -> IF r.ok /\ r.v > 0 THEN r.v * MILS ELSE 0
          [] c = "T" -> IF strchr(tkn, 1, ".") # 0 THEN micros(strtod_micros(tkn))
                        ELSE IF r.ok /\ r.v > 0 THEN r.v * SECS ELSE 0
          [] c = "D" -> IF r.ok THEN r.v ELSE 0
          [] c = "n" -> IF r.ok /\ r.v > 0 THEN r.v \div MILS ELSE 0
  IN time(strtoull(tkn))

\* whether the destination of the specifier letter c counts as already set
already_set(li, c) ==
  CASE c = "d" -> li.date # NULL
    [] c = "t" -> li.time # NULL
    [] c = "x" -> li.time # NULL /\ li.date # NULL
    [] c = "v" -> li.vhost # NULL
    [] c = "e" -> li.userid # NULL
    [] c = "C" -> li.cache_status # NULL
    [] c = "h" -> li.host # NULL
    [] c = "m" -> li.method # NULL
    [] c = "U" -> li.req # NULL
    [] c = "q" -> li.qstr # NULL
    [] c = "H" -> li.protocol # NULL
    [] c = "r" -> li.req # NULL
    [] c = "s" -> li.status >= 0
    [] c = "b" -> li.resp_size # 0
    [] c = "R" -> li.ref # NULL
    [] c = "u" -> li.agent # NULL
    [] c \in {"L", "T", "D", "n"} -> li.serve_time # 0
    [] c = "k" -> li.tls_cypher # NULL
    [] c = "K" -> li.tls_type # NULL
    [] c = "M" -> li.mime_type # NULL
    [] OTHER -> FALSE

SpecLetters ==
  {"d", "t", "x", "v", "e", "C", "h", "m", "U", "q", "H", "r", "s", "b", "R", "u",
   "L", "T", "D", "n", "k", "K", "M"}

\* the specifier at fmt[p] applied to the line s at cursor str:
\* [ret |-> the return value, li |-> the record, str |-> the cursor, cf |-> conf]
parse_specifier(li, s, str, fmt, p, end0, cf) ==
  LET c == fmt[p]
      R(r, l, st, f) == [ret |-> r, li |-> l, str |-> st, cf |-> f]
      \* %h reads a bracketed address up to the closing bracket
      br == c = "h" /\ At(s, str) = "["
      str1 == IF br THEN str + 1 ELSE str
      end1 == IF br /\ At(s, str1) # NUL THEN <<"]">> ELSE end0
      \* %d reads as many space-separated words as the date format holds
      fmtspcs == count_matches(Val(cf.date_format), " ")
      pch == strchr(s, str, " ")
      dspc == IF fmtspcs # 0 /\ pch # 0 THEN find_alpha_count(s, pch) ELSE 0
      cnt == IF c = "d" THEN MAX(dspc, fmtspcs) + 1 ELSE 1
      nul(st) == LET null(e) == R(e.code, e.li, st, cf) IN
                 null(spec_err(li, ERR_SPEC_TOKN_NUL, c, NULL))
      inv(l, t, st) == R(1, spec_err(l, ERR_SPEC_TOKN_INV, c, Some(t)).li, st, cf)
      \* the result r in the zone that the call v of str_to_time has left installed
      zoned(r, v) == [r EXCEPT !.cf.TZ = v.TZ]
      \* the token's text, empty for no token
      text(tok) == IF tok.tkn = NULL THEN <<>> ELSE Val(tok.tkn)
      \* what the case of c computes from the token's text t
      value(t) ==
        CASE c \in {"d", "t", "x"} ->
               str_to_time(t, IF c = "d" THEN cf.date_format ELSE cf.time_format, li.dt, cf.TZ,
                           cf.tz_name)
          [] c = "C" -> is_cache_hit(t)
          [] c = "h" -> invalid_ipaddr(t)
          [] c = "m" -> extract_method(t)
          [] c \in {"U", "q", "u"} -> decode_url(t, cf.double_decode)
          [] c = "H" -> extract_protocol(t)
          [] c = "r" -> parse_req(t, li.method, li.protocol, cf)
          [] c = "s" -> parse_status(t, cf)
          [] c = "b" -> strtoull(t)
          [] c = "R" -> extract_keyphrase(t, cf)
          [] c \in {"L", "T", "D", "n"} -> serve_time_of(c, t)
          [] OTHER -> t
      \* the case of c: the token tok, its text t, the value v computed from
      \* it, and for %d, %t and %x the date and time texts of the time v
      case(tok, t, v, date, time) ==
        CASE c = "d" ->
               IF tok.tkn = NULL THEN nul(str)
               ELSE IF v.err # 0 \/ date = NULL THEN zoned(inv(li, t, tok.str), v)
               ELSE R(0, [li EXCEPT !.date = date, !.numdate = str2int(Val(date)),
                                    !.dt = set_tm_dt_logitem(li.dt, v.tm)], tok.str,
                      [cf EXCEPT !.TZ = v.TZ])
          [] c = "t" ->
               IF tok.tkn = NULL THEN nul(str)
               ELSE IF v.err # 0 \/ time = NULL THEN zoned(inv(li, t, tok.str), v)
               ELSE R(0, [li EXCEPT !.time = time, !.dt = set_tm_tm_logitem(li.dt, v.tm)],
                      tok.str, [cf EXCEPT !.TZ = v.TZ])
          [] c = "x" ->
               IF tok.tkn = NULL THEN nul(str)
               ELSE IF time = NULL
                    THEN zoned(inv(IF date = NULL THEN li ELSE [li EXCEPT !.date = date], t,
                                   tok.str), v)
               ELSE R(0, [li EXCEPT !.date = date, !.time = time,
                                    !.numdate = str2int(Val(date)),
                                    !.dt = set_tm_tm_logitem(set_tm_dt_logitem(li.dt, v.tm), v.tm)],
                      tok.str, [cf EXCEPT !.TZ = v.TZ])
          [] c \in {"v", "e", "k", "K", "M"} ->
               IF tok.tkn = NULL THEN nul(str)
               ELSE R(0, [li EXCEPT ![CASE c = "v" -> "vhost" [] c = "e" -> "userid"
                                        [] c = "k" -> "tls_cypher" [] c = "K" -> "tls_type"
                                        [] c = "M" -> "mime_type"] = tok.tkn], tok.str, cf)
          [] c = "C" ->
               IF tok.tkn = NULL THEN nul(str)
               ELSE IF v THEN R(0, [li EXCEPT !.cache_status = tok.tkn], tok.str, cf)
               ELSE R(0, li, tok.str, cf)
          [] c = "h" ->
               IF tok.tkn = NULL THEN nul(str1)
               ELSE IF cf.no_ip_validation
                    THEN IF t = <<>> THEN inv(li, t, tok.str)
                         ELSE R(0, [li EXCEPT !.host = tok.tkn], tok.str, cf)
               ELSE IF v.invalid THEN inv([li EXCEPT !.type_ip = v.ipvx], t, tok.str)
               ELSE R(0, [li EXCEPT !.type_ip = v.ipvx, !.host = tok.tkn], tok.str, cf)
          [] c = "m" ->
               IF tok.tkn = NULL THEN nul(str)
               ELSE IF v = NULL THEN inv(li, t, tok.str)
               ELSE R(0, [li EXCEPT !.method = v], tok.str, cf)
          [] c = "U" ->
               IF tok.tkn = NULL \/ t = <<>> THEN nul(tok.str)
               ELSE R(0, [li EXCEPT !.req = v], tok.str, cf)
          [] c = "q" ->
               IF tok.tkn = NULL \/ t = <<>> THEN R(0, li, tok.str, cf)
               ELSE R(0, [li EXCEPT !.qstr = v], tok.str, cf)
          [] c = "H" ->
               IF tok.tkn = NULL THEN nul(str)
               ELSE IF v = NULL THEN inv(li, t, tok.str)
               ELSE R(0, [li EXCEPT !.protocol = v], tok.str, cf)
          [] c = "r" ->
               IF tok.tkn = NULL THEN nul(str)
               ELSE R(0, [li EXCEPT !.req = Some(v.req), !.method = v.method,
                                    !.protocol = v.protocol], tok.str, cf)
          [] c = "s" ->
               IF tok.tkn = NULL THEN nul(str)
               ELSE IF v.bad THEN inv([li EXCEPT !.status = v.status], t, tok.str)
               ELSE R(0, [li EXCEPT !.status = v.status], tok.str, cf)
          [] c = "b" ->
               IF tok.tkn = NULL THEN nul(str)
               ELSE R(0, [li EXCEPT !.resp_size = IF v.ok THEN v.v ELSE 0], tok.str,
                      [cf EXCEPT !.bandwidth = 1])
          [] c = "R" ->
               IF t # <<>> /\ t # <<"-">>
               THEN R(0, [li EXCEPT !.keyphrase = IF v.keyphrase = NULL THEN li.keyphrase
                                                  ELSE v.keyphrase,
                                    !.site = extract_referer_site(v.ref, li.site),
                                    !.ref = Some(v.ref)], tok.str, cf)
               ELSE R(0, [li EXCEPT !.ref = Some(alloc_string(<<"-">>))], tok.str, cf)
          [] c = "u" ->
               IF tok.tkn # NULL /\ t # <<>> THEN R(0, [li EXCEPT !.agent = v], tok.str, cf)
               ELSE R(0, [li EXCEPT !.agent = Some(alloc_string(<<"-">>))], tok.str, cf)
          [] c \in {"L", "T", "D", "n"} ->
               IF tok.tkn = NULL THEN nul(str)
               ELSE R(0, [li EXCEPT !.serve_time = v], tok.str, [cf EXCEPT !.serve_usecs = 1])
      timed(tok, t, v, date) ==
        case(tok, t, v, date,
             IF (c = "t" /\ v.err = 0) \/ (c = "x" /\ date # NULL) THEN set_time(v.tm) ELSE NULL)
      dated(tok, t, v) ==
        timed(tok, t, v, IF c \in {"d", "x"} /\ v.err = 0 THEN set_date(cf, v.tm) ELSE NULL)
      valued(tok, t) == dated(tok, t, value(t))
      token(tok) == valued(tok, text(tok))
  IN
  IF (c \in SpecLetters /\ already_set(li, c)) \/ c \notin SpecLetters \cup {"~"}
  THEN R(0, li, handle_default_case_token(s, str, fmt, p), cf)
  ELSE IF c = "~" THEN R(0, li, find_alpha(s, str), cf)
  ELSE token(parse_string(s, str1, end1, cnt))

----------------------------------------------------------------------------
(* Special specifiers and parse_format *)

\* the scan of the template from fmt[p] for an unescaped {...}:
\* [b1, b2 |-> the positions of the braces, 0 when not found]
RECURSIVE braces_scan(_, _, _, _)
braces_scan(fmt, i, esc, b1) ==
  IF i > Len(fmt) THEN [b1 |-> b1, b2 |-> 0]
  ELSE IF fmt[i] = "\\" THEN braces_scan(fmt, i + 1, TRUE, b1)
  ELSE IF fmt[i] = "{" /\ ~esc THEN braces_scan(fmt, i + 1, esc, i)
  ELSE IF fmt[i] = "}" /\ ~esc THEN [b1 |-> b1, b2 |-> i]
  ELSE braces_scan(fmt, i + 1, FALSE, b1)

\* [skips |-> NULL or Some(reject set), p |-> the template pointer after the call]
extract_braces(fmt, p) ==
  LET b == braces_scan(fmt, p, FALSE, 0) IN
  IF b.b1 = 0 \/ b.b2 = 0 \/ b.b2 - (b.b1 + 1) <= 0 THEN [skips |-> NULL, p |-> p]
  ELSE [skips |-> Some(SubSeq(fmt, b.b1 + 1, b.b2 - 1)), p |-> b.b2 + 1]

\* the scan of the XFF field s, at most n more iterations of its loop:
\* x is [li, ptr, idx, done]; ptr and str move together
RECURSIVE set_xff_host_from(_, _, _, _, _)
set_xff_host_from(x, s, skips, out, n) ==
  LET return(l1) == [li |-> l1, ptr |-> x.ptr, idx |-> x.idx, done |-> TRUE]
      \* the record l1 after the token of length len
      after(l1, len) ==
        IF l1.host # NULL /\ out THEN return(l1)
        ELSE [li |-> l1, ptr |-> x.ptr + len, idx |-> 0, done |-> FALSE]
      address(tkn, ip, len) ==
        IF x.li.host # NULL /\ ip.invalid THEN return(x.li)
        ELSE after(IF x.li.host = NULL /\ ~ip.invalid
                   THEN [x.li EXCEPT !.host = Some(tkn), !.type_ip = ip.ipvx]
                   ELSE x.li, len)
      token(tkn, len) == address(tkn, invalid_ipaddr(tkn), len)
      span(len) ==
        IF len = 0 THEN [li |-> x.li, ptr |-> x.ptr + 1, idx |-> x.idx + 1, done |-> FALSE]
        ELSE IF x.idx < Len(skips) /\ x.li.host # NULL THEN return(x.li)
        ELSE token(Val(parsed_string(s, x.ptr + len, x.ptr, FALSE).tkn), len)
  IN IF n = 0 \/ x.done THEN x
     ELSE IF n = 1
          THEN IF At(s, x.ptr) = NUL THEN return(x.li) ELSE span(strcspn(s, x.ptr, skips))
     ELSE set_xff_host_from(set_xff_host_from(x, s, skips, out, n \div 2), s, skips, out,
                            n - n \div 2)

\* a mutation of the scan: the whole field is taken for the host
set_xff_host_whole(li, s, skips, out) ==
  [res |-> 0, li |-> [li EXCEPT !.host = Some(s)]]

\* [res |-> 1 when no host is set after the call, li |-> the record]; every
\* iteration of the scan passes one byte of skips or one token, or ends the loop
set_xff_host(li, s, skips, out) ==
  LET result(l1) == [res |-> IF l1.host = NULL THEN 1 ELSE 0, li |-> l1] IN
  result(set_xff_host_from([li |-> li, ptr |-> 1, idx |-> 0, done |-> FALSE], s, skips, out,
                           2 * Cardinality({k \in 1..Len(s) : s[k] \in Range(skips)}) + 2).li)

\* [res, li, str, p]: p is the template pointer, moved past the braces
find_xff_host(li, s, str, fmt, p0) ==
  LET missing(e) == [res |-> e.code, li |-> e.li, str |-> str, p |-> p0]
      \* the XFF field is delimited by the template's next character
      hard(b) == At(fmt, b.p) # NUL /\ At(fmt, b.p) \notin Range(Val(b.skips))
                 /\ strchr(s, str, At(fmt, b.p)) # 0
      host(b, ex, x) ==
        IF hard(b) /\ ex.tkn = NULL THEN [res |-> 0, li |-> li, str |-> ex.str, p |-> b.p]
        ELSE [res |-> x.res, li |-> x.li, str |-> IF hard(b) THEN ex.str + 1 ELSE str, p |-> b.p]
      extracted(b, ex) ==
        host(b, ex, set_xff_host(li, IF hard(b) THEN Val(ex.tkn) ELSE From(s, str),
                                 Val(b.skips), hard(b)))
      braces(b) ==
        IF b.skips = NULL
        THEN missing(spec_err(li, ERR_SPEC_SFMT_MIS, At(fmt, p0), Some(<<"{","}">>)))
        ELSE extracted(b, parse_string(s, str, <<At(fmt, b.p)>>, 1))
  IN braces(extract_braces(fmt, p0))

\* [ret, li, str, p]
special_specifier(li, s, str, fmt, p) ==
  LET failed(f, e) == [ret |-> e.code, li |-> e.li, str |-> f.str, p |-> f.p]
      found(f) ==
        IF f.res # 0 THEN failed(f, spec_err(f.li, ERR_SPEC_TOKN_NUL, "h", NULL))
        ELSE [ret |-> 0, li |-> f.li, str |-> f.str, p |-> f.p]
  IN IF fmt[p] = "h" THEN found(find_xff_host(li, s, str, fmt, p))
     ELSE [ret |-> 0, li |-> li, str |-> str, p |-> p]

\* the state of one call of parse_format: the line s and its cursor str, the
\* template fmt and its pointer p, the loop's counters, and ret once done
pf_start(s, fmt) ==
  [s |-> s, str |-> 1, fmt |-> fmt, p |-> 1, perc |-> 0, tilde |-> 0,
   done |-> s = <<>>, ret |-> IF s = <<>> THEN 1 ELSE 0]

\* the loop's test for a line that ended at a template character that is
\* not consumed as "%" or "~": a mutation that tests it at specifiers only
early_line_end_at_specifier(f) == At(f.s, f.str) = NUL /\ (f.perc # 0 \/ f.tilde # 0)

\* the loop's test for a line that ended before the template
early_line_end(f) == At(f.s, f.str) = NUL

\* one iteration of the loop over the template: [f |-> the call's state,
\* li |-> the record, cf |-> conf]
parse_format_iter(f, li, cf) ==
  LET c == f.fmt[f.p]
      X(g, l, k) == [f |-> g, li |-> l, cf |-> k]
      stop(r, l, k) == X([f EXCEPT !.done = TRUE, !.ret = r], l, k)
      invalid(e) == stop(e.code, e.li, cf)
      special(r) ==
        IF r.ret = 1 THEN stop(1, r.li, cf)
        ELSE X([f EXCEPT !.str = r.str, !.p = r.p + 1, !.tilde = 0], r.li, cf)
      specifier(r) ==
        IF r.ret # 0 THEN stop(r.ret, r.li, r.cf)
        ELSE X([f EXCEPT !.str = r.str, !.p = f.p + 1, !.perc = 0], r.li, r.cf)
  IN
  IF f.p > Len(f.fmt) THEN stop(0, li, cf)
  ELSE IF c = "%" THEN X([f EXCEPT !.perc = f.perc + 1, !.p = f.p + 1], li, cf)
  ELSE IF c = "~" /\ f.perc = 0 THEN X([f EXCEPT !.tilde = f.tilde + 1, !.p = f.p + 1], li, cf)
  ELSE IF early_line_end(f) THEN invalid(spec_err(li, ERR_SPEC_LINE_INV, "-", NULL))
  ELSE IF At(f.s, f.str) = "\n" THEN stop(0, li, cf)
  ELSE IF f.tilde # 0 THEN special(special_specifier(li, f.s, f.str, f.fmt, f.p))
  ELSE IF f.perc # 0
       THEN specifier(parse_specifier(li, f.s, f.str, f.fmt, f.p, get_delim(f.fmt, f.p), cf))
  ELSE X([f EXCEPT !.str = f.str + 1, !.p = f.p + 1], li, cf)

RECURSIVE parse_format_run(_, _, _)
parse_format_run(f, li, cf) ==
  IF f.done THEN [f |-> f, li |-> li, cf |-> cf]
  ELSE LET again(n) == parse_format_run(n.f, n.li, n.cf) IN again(parse_format_iter(f, li, cf))

\* [ret, li, cf] of parse_format(logitem, str, lfmt)
parse_format(li, s, lfmt, cf) ==
  LET result(r) == [ret |-> r.f.ret, li |-> r.li, cf |-> r.cf] IN
  result(parse_format_run(pf_start(s, lfmt), li, cf))

valid_line(l) == l = <<>> \/ l[1] = "#" \/ l[1] = "\n"

\* a mutation of the required fields: only the host is required
verify_missing_msg_host_only(li) ==
  IF li.host = NULL THEN Some([fmt |-> "IPv4/6 is required.", args |-> <<>>])
  ELSE li.errstr

verify_missing_msg(li) ==
  IF li.host = NULL THEN Some([fmt |-> "IPv4/6 is required.", args |-> <<>>])
  ELSE IF li.date = NULL THEN Some([fmt |-> "A valid date is required.", args |-> <<>>])
  ELSE IF li.req = NULL THEN Some([fmt |-> "A request is required.", args |-> <<>>])
  ELSE li.errstr

\* [ret, li]
verify_missing_fields(li) ==
  LET l1 == [li EXCEPT !.errstr = verify_missing_msg(li)] IN
  [ret |-> IF l1.errstr # NULL THEN 1 ELSE 0, li |-> l1]

----------------------------------------------------------------------------
(* The structured-document (JSON) pull parser *)

EOF == "EOF"

\* the code of a byte of the model (0..255)
Code(c) == (CHOOSE n \in 1..256 : ByteChar[n] = c) - 1

json_open_string(string) ==
  [buf |-> string, position |-> 0, error |-> FALSE, streaming |-> TRUE,
   errmsg |-> NULL, ntokens |-> 0, stack |-> <<>>, string |-> <<>>]

\* json_set_streaming without its effect
json_set_streaming_kept(json, streaming) == json

json_set_streaming(json, streaming) == [json EXCEPT !.streaming = streaming]

\* json_error that formats the message and leaves the flag alone
json_error_unflagged(json, fmt, args) ==
  [json EXCEPT !.errmsg = Some([fmt |-> fmt, args |-> args])]

\* the json_error macro: the first message is kept
json_error(json, fmt, args) ==
  IF json.error THEN json
  ELSE [json EXCEPT !.error = TRUE, !.errmsg = Some([fmt |-> fmt, args |-> args])]

JErr(json, fmt, args) == [t |-> "JSON_ERROR", j |-> json_error(json, fmt, args)]

buffer_peek(json) ==
  IF json.position < Len(json.buf) THEN json.buf[json.position + 1] ELSE EOF

\* [c |-> the byte read, j |-> the stream after the read]
buffer_get(json) == [c |-> buffer_peek(json), j |-> [json EXCEPT !.position = json.position + 1]]

pushchar(json, c) == [json EXCEPT !.string = json.string \o <<c>>]

init_string(json) == [json EXCEPT !.string = <<>>]

\* push that records every container as an array
push_as_array(json, type) ==
  [t |-> type, j |-> [json EXCEPT !.stack = Append(json.stack, [type |-> "JSON_ARRAY", count |-> 0])]]

push(json, type) ==
  [t |-> type, j |-> [json EXCEPT !.stack = Append(json.stack, [type |-> type, count |-> 0])]]

pop(json, c, expected) ==
  IF json.stack = <<>> \/ json.stack[Len(json.stack)].type # expected
  THEN JErr(json, "unexpected byte '%c'", <<c>>)
  ELSE [t |-> IF expected = "JSON_ARRAY" THEN "JSON_ARRAY_END" ELSE "JSON_OBJECT_END",
        j |-> [json EXCEPT !.stack = SubSeq(json.stack, 1, Len(json.stack) - 1)]]

RECURSIVE is_match(_, _, _)
is_match(json, pattern, type) ==
  IF pattern = <<>> THEN [t |-> type, j |-> json]
  ELSE LET g == buffer_get(json) IN
       IF g.c # Head(pattern)
       THEN JErr(g.j, "expected '%c' instead of byte '%c'", <<Head(pattern), g.c>>)
       ELSE is_match(g.j, Tail(pattern), type)

hexchar(c) == IF c # EOF /\ isxdigit(c) THEN B16210(c) ELSE -1

\* [cp |-> the code point or -1, j |-> the stream]
RECURSIVE read_unicode_cp_from(_, _, _)
read_unicode_cp_from(json, i, cp) ==
  IF i = 4 THEN [cp |-> cp, j |-> json]
  ELSE LET g == buffer_get(json) IN
       IF g.c = EOF
       THEN [cp |-> -1, j |-> json_error(g.j, "%s", <<"unterminated string literal in Unicode">>)]
       ELSE IF hexchar(g.c) = -1
            THEN [cp |-> -1, j |-> json_error(g.j, "invalid escape Unicode byte '%c'", <<g.c>>)]
            ELSE read_unicode_cp_from(g.j, i + 1, cp + hexchar(g.c) * (16 ^ (3 - i)))

read_unicode_cp(json) == read_unicode_cp_from(json, 0, 0)

RECURSIVE push_all(_, _)
push_all(json, cs) == IF cs = <<>> THEN json ELSE push_all(pushchar(json, Head(cs)), Tail(cs))

\* the bytes encode_utf8 pushes for the code point c
utf8_bytes(c) ==
  IF c < 128 THEN <<c>>
  ELSE IF c < 2048 THEN <<((c \div 64) % 32) + 192, (c % 64) + 128>>
  ELSE IF c < 65536
       THEN <<((c \div 4096) % 16) + 224, ((c \div 64) % 64) + 128, (c % 64) + 128>>
  ELSE <<((c \div 262144) % 8) + 240, ((c \div 4096) % 64) + 128,
         ((c \div 64) % 64) + 128, (c % 64) + 128>>

\* [r |-> 0 or a non-zero failure, j |-> the stream]
encode_utf8(json, c) ==
  IF c >= 2048 /\ c < 65536 /\ c >= 55296 /\ c <= 57343
  THEN [r |-> -1, j |-> json_error(json, "invalid codepoint %06lx", <<c>>)]
  ELSE IF c >= 1114112
       THEN [r |-> -1, j |-> json_error(json, "unable to encode %06lx as UTF-8", <<c>>)]
  ELSE LET push_codes(bs) == push_all(json, [i \in 1..Len(bs) |-> ByteChar[bs[i] + 1]])
       IN [r |-> 0, j |-> push_codes(utf8_bytes(c))]

read_unicode(json) ==
  LET fail(j, fmt, args) == [r |-> -1, j |-> json_error(j, fmt, args)]
      \* the low half l of the pair that follows the high half h
      pair(h, l) ==
        IF l.cp = -1 THEN [r |-> -1, j |-> l.j]
        ELSE IF l.cp < 56320 \/ l.cp > 57343
             THEN fail(l.j, "surrogate pair continuation \\u%04lx out of range (dc00-dfff)", <<l.cp>>)
             ELSE [cp |-> ((h.cp - 55296) * 1024) + ((l.cp - 56320) + 65536), j |-> l.j]
      after_esc(h, g2) ==
        IF g2.c = EOF THEN fail(g2.j, "%s", <<"unterminated string literal in Unicode">>)
        ELSE IF g2.c # "u"
             THEN fail(g2.j, "invalid continuation for surrogate pair '%c', expected 'u'", <<g2.c>>)
        ELSE pair(h, read_unicode_cp(g2.j))
      after_high(h, g1) ==
        IF g1.c = EOF THEN fail(g1.j, "%s", <<"unterminated string literal in Unicode">>)
        ELSE IF g1.c # "\\"
             THEN fail(g1.j, "invalid continuation for surrogate pair '%c', expected '\\'", <<g1.c>>)
        ELSE after_esc(h, buffer_get(g1.j))
      \* [cp, j]: the code point to encode, or [r, j]: the failure
      point(h) ==
        IF h.cp = -1 THEN [r |-> -1, j |-> h.j]
        ELSE IF h.cp >= 55296 /\ h.cp <= 56319 THEN after_high(h, buffer_get(h.j))
        ELSE IF h.cp >= 56320 /\ h.cp <= 57343
             THEN fail(h.j, "dangling surrogate \\u%04lx", <<h.cp>>)
        ELSE h
      encode(q) == IF "r" \in DOMAIN q THEN q ELSE encode_utf8(q.j, q.cp)
  IN encode(point(read_unicode_cp(json)))

read_escaped(json) ==
  LET escaped(c, j) ==
        IF c = EOF
        THEN [r |-> -1, j |-> json_error(j, "%s", <<"unterminated string literal in escape">>)]
        ELSE IF c = "u" THEN read_unicode(j)
        ELSE IF c \in {"\\", "b", "f", "n", "r", "t", "/", "\""}
             THEN [r |-> 0, j |-> pushchar(j, CASE c = "b" -> "\\x08" [] c = "f" -> "\f"
                                                [] c = "n" -> "\n" [] c = "r" -> "\r"
                                                [] c = "t" -> "\t" [] OTHER -> c)]
        ELSE [r |-> -1, j |-> json_error(j, "invalid escaped byte '%c'", <<c>>)]
  IN escaped(buffer_peek(json), buffer_get(json).j)

\* the bytes of code 128 and above
HighBytes == {ByteChar[n] : n \in 129..256}

char_needs_escaping(c) == Code(c) < 32 \/ c = "\"" \/ c = "\\"

utf8_seq_length(byte) ==
  LET len(u) == IF u < 128 THEN 1
                ELSE IF u <= 193 THEN 0
                ELSE IF u <= 223 THEN 2
                ELSE IF u <= 239 THEN 3
                ELSE IF u <= 244 THEN 4
                ELSE 0
  IN len(Code(byte))

\* bytes holds the codes of the sequence (a byte read past the end is -1)
is_legal_utf8(bytes) ==
  LET n == Len(bytes)
      cont(a) == a >= 128 /\ a <= 191
      second(a) == CASE bytes[1] = 224 -> a >= 160 /\ a <= 191
                     [] bytes[1] = 237 -> a >= 128 /\ a <= 159
                     [] bytes[1] = 240 -> a >= 144 /\ a <= 191
                     [] bytes[1] = 244 -> a >= 128 /\ a <= 143
                     [] OTHER -> cont(a)
  IN /\ n \in 1..4
     /\ n = 4 => cont(bytes[4])
     /\ n >= 3 => cont(bytes[3])
     /\ n >= 2 => second(bytes[2])
     /\ ~(bytes[1] >= 128 /\ bytes[1] < 194)
     /\ bytes[1] <= 244

RECURSIVE get_bytes(_, _)
get_bytes(json, n) ==
  IF n = 0 THEN [cs |-> <<>>, j |-> json]
  ELSE LET g == buffer_get(json)
           r == get_bytes(g.j, n - 1)
       IN [cs |-> <<g.c>> \o r.cs, j |-> r.j]

read_utf8(json, next_char) ==
  LET legal(cs) == is_legal_utf8([i \in 1..Len(cs) |-> IF cs[i] = EOF THEN -1 ELSE Code(cs[i])])
      sequence(g) ==
        IF ~legal(<<next_char>> \o g.cs)
        THEN [r |-> -1, j |-> json_error(g.j, "%s", <<"invalid UTF-8 text">>)]
        ELSE [r |-> 0, j |-> push_all(g.j, <<next_char>> \o g.cs)]
      counted(count) ==
        IF count = 0 THEN [r |-> -1, j |-> json_error(json, "%s", <<"invalid UTF-8 character">>)]
        ELSE sequence(get_bytes(json, count - 1))
  IN counted(utf8_seq_length(next_char))

RECURSIVE read_string_loop(_, _)
read_string_loop(e, n) ==
  LET more(j) == [t |-> "more", j |-> j]
      read(r) == IF r.r # 0 THEN [t |-> "JSON_ERROR", j |-> r.j] ELSE more(r.j)
      byte(c, j) ==
        IF c = EOF THEN JErr(j, "%s", <<"unterminated string literal">>)
        ELSE IF c = "\"" THEN [t |-> "JSON_STRING", j |-> j]
        ELSE IF c = "\\" THEN read(read_escaped(j))
        ELSE IF c \in HighBytes THEN read(read_utf8(j, c))
        ELSE IF char_needs_escaping(c)
             THEN JErr(j, "%s", <<"unescaped control character in string">>)
        ELSE more(pushchar(j, c))
  IN IF n = 0 \/ e.t # "more" THEN e
     ELSE IF n = 1 THEN byte(buffer_peek(e.j), buffer_get(e.j).j)
     ELSE read_string_loop(read_string_loop(e, n \div 2), n - n \div 2)

\* every iteration of the loop reads at least one byte or ends it, and it ends
\* at the latest at the first quote that no backslash precedes
read_string(json) ==
  LET closes(k) == json.buf[k] = "\"" /\ json.buf[k - 1] # "\\"
      last(lo, hi) ==
        IF \E k \in lo..hi : closes(k)
        THEN CHOOSE k \in lo..hi : closes(k) /\ \A i \in lo..(k - 1) : ~closes(i)
        ELSE hi + 1
  IN read_string_loop([t |-> "more", j |-> init_string(json)],
                      last(json.position + 1, Len(json.buf)) - json.position)

\* [r |-> 0 or -1, j]
RECURSIVE read_digits_from(_, _)
read_digits_from(json, nread) ==
  LET c == buffer_peek(json) IN
  IF c # EOF /\ is_digit(c)
  THEN read_digits_from(pushchar(buffer_get(json).j, c), nread + 1)
  ELSE IF nread = 0
       THEN [r |-> -1, j |-> json_error(json, "expected digit instead of byte '%c'", <<c>>)]
       ELSE [r |-> 0, j |-> json]

read_digits(json) == read_digits_from(json, 0)

\* the part of read_number after the integer part: fraction and exponent
read_number_tail(json) ==
  LET num(j) == [t |-> "JSON_NUMBER", j |-> j]
      digits(d) == IF d.r # 0 THEN [t |-> "JSON_ERROR", j |-> d.j] ELSE num(d.j)
      \* after the sign or first digit s of the exponent, j1 the stream at s
      exponent(s, j1) ==
        IF s \in {"+", "-"} \/ (s # EOF /\ is_digit(s))
        THEN digits(read_digits(IF s \in {"+", "-"} THEN pushchar(buffer_get(j1).j, s) ELSE j1))
        ELSE JErr(j1, "unexpected byte '%c' in number", <<s>>)
      expo(e, j) ==
        IF e \in {"e", "E"}
        THEN exponent(buffer_peek(pushchar(buffer_get(j).j, e)), pushchar(buffer_get(j).j, e))
        ELSE num(j)
      fraction(d) ==
        IF d.r # 0 THEN [t |-> "JSON_ERROR", j |-> d.j] ELSE expo(buffer_peek(d.j), d.j)
      tail(c) ==
        IF c \notin {".", "e", "E"} THEN num(json)
        ELSE fraction(IF c = "." THEN read_digits(pushchar(buffer_get(json).j, c))
                      ELSE [r |-> 0, j |-> json])
  IN tail(buffer_peek(json))

RECURSIVE read_number(_, _)
read_number(json, c) ==
  LET integer(d) == IF d.r # 0 THEN [t |-> "JSON_ERROR", j |-> d.j] ELSE read_number_tail(d.j)
      start(j0, g) ==
        IF c = "-"
        THEN IF g.c # EOF /\ is_digit(g.c) THEN read_number(g.j, g.c)
             ELSE JErr(g.j, "unexpected byte '%c' in number", <<g.c>>)
        ELSE integer(IF c \in {"1", "2", "3", "4", "5", "6", "7", "8", "9"}
                          /\ g.c # EOF /\ is_digit(g.c)
                     THEN read_digits(j0)
                     ELSE [r |-> 0, j |-> j0])
  IN start(pushchar(json, c), buffer_get(pushchar(json, c)))

json_isspace(c) == c \in {"\t", "\n", "\r", " "}

\* the next byte that is not whitespace: [c, j]
RECURSIVE next(_)
next(json) ==
  LET g == buffer_get(json) IN IF json_isspace(g.c) THEN next(g.j) ELSE g

read_value(json, c) ==
  LET j == [json EXCEPT !.ntokens = json.ntokens + 1] IN
  CASE c = EOF -> JErr(j, "%s", <<"unexpected end of text">>)
    [] c = "{" -> push(j, "JSON_OBJECT")
    [] c = "[" -> push(j, "JSON_ARRAY")
    [] c = "\"" -> read_string(j)
    [] c = "n" -> is_match(j, <<"u","l","l">>, "JSON_NULL")
    [] c = "f" -> is_match(j, <<"a","l","s","e">>, "JSON_FALSE")
    [] c = "t" -> is_match(j, <<"r","u","e">>, "JSON_TRUE")
    [] c # EOF /\ (is_digit(c) \/ c = "-") -> read_number(init_string(j), c)
    [] OTHER -> JErr(j, "unexpected byte '%c' in value", <<c>>)

\* with the count of the top frame raised by one
bump(json) ==
  [json EXCEPT !.stack[Len(json.stack)].count = json.stack[Len(json.stack)].count + 1]

\* the whitespace skipped before the end of text in strict mode: [c, j]
RECURSIVE skip_trailing(_)
skip_trailing(json) ==
  LET c == buffer_peek(json) IN
  IF json_isspace(c) THEN skip_trailing(buffer_get(json).j) ELSE [c |-> c, j |-> json]

\* what json_next does with the byte g.c it reads: [r |-> the result] where
\* the branch returns without reading a value, else the stream and byte
\* read_value is applied to, with msg set where the value must be a member
\* name
json_next_branch(g) ==
  LET c == g.c
      top == g.j.stack[Len(g.j.stack)]
      result(r) == [r |-> r]
      value(n, msg) == [j |-> n.j, c |-> n.c, msg |-> msg]
  IN IF g.j.stack = <<>>
     THEN IF c = EOF /\ g.j.streaming THEN result([t |-> "JSON_DONE", j |-> g.j])
          ELSE value(g, "")
     ELSE IF top.type = "JSON_ARRAY"
          THEN IF top.count = 0
               THEN IF c = "]" THEN result(pop(g.j, c, "JSON_ARRAY"))
                    ELSE value([c |-> c, j |-> bump(g.j)], "")
               ELSE IF c = "," THEN value(next(bump(g.j)), "")
               ELSE IF c = "]" THEN result(pop(g.j, c, "JSON_ARRAY"))
               ELSE result(JErr(g.j, "unexpected byte '%c'", <<c>>))
     ELSE IF top.type = "JSON_OBJECT"
          THEN IF top.count = 0
               THEN IF c = "}" THEN result(pop(g.j, c, "JSON_OBJECT"))
                    ELSE value(g, "expected member name or '}'")
               ELSE IF top.count % 2 = 0
                    THEN IF c # "," /\ c # "}"
                         THEN result(JErr(g.j, "%s", <<"expected ',' or '}' after member value">>))
                         ELSE IF c = "}" THEN result(pop(g.j, c, "JSON_OBJECT"))
                         ELSE value(next(g.j), "expected member name")
                    ELSE IF c # ":"
                         THEN result(JErr(g.j, "%s", <<"expected ':' after member name">>))
                         ELSE value(next(bump(g.j)), "")
     ELSE result(JErr(g.j, "%s", <<"invalid parser state">>))

\* [t |-> the event, j |-> the stream after the call]
json_next(json) ==
  LET trailing(s) ==
        IF s.c # EOF THEN JErr(s.j, "expected end of text instead of byte '%c'", <<s.c>>)
        ELSE [t |-> "JSON_DONE", j |-> s.j]
      member(v, msg) ==
        IF v.t # "JSON_STRING"
        THEN IF v.t # "JSON_ERROR" THEN JErr(v.j, "%s", <<msg>>) ELSE v
        ELSE [t |-> v.t, j |-> bump(v.j)]
      read(b, v) == IF b.msg = "" THEN v ELSE member(v, b.msg)
      branch(b) == IF "r" \in DOMAIN b THEN b.r ELSE read(b, read_value(b.j, b.c))
  IN IF json.error THEN [t |-> "JSON_ERROR", j |-> json]
     ELSE IF json.ntokens > 0 /\ json.stack = <<>>
          THEN IF ~json.streaming THEN trailing(skip_trailing(json))
               ELSE [t |-> "JSON_DONE", j |-> json]
     ELSE branch(json_next_branch(next(json)))

\* the C string json_get_string returns
json_get_string(json) == CString(json.string)

\* [ctx |-> the context, count |-> the value stored through count (prev when
\*  nothing is stored)]
json_get_context(json, prev) ==
  IF json.stack = <<>> THEN [ctx |-> "JSON_DONE", count |-> prev]
  ELSE [ctx |-> json.stack[Len(json.stack)].type, count |-> json.stack[Len(json.stack)].count]

----------------------------------------------------------------------------
(* Configuration: the format templates and what is derived from them *)

\* the configuration before any option is applied; TZ stands for the zone of
\* the process environment, in seconds east of UTC, which the time functions
\* of the library read
conf_init ==
  [TZ |-> 0, tz_name |-> NULL, log_format |-> NULL, date_format |-> NULL, time_format |-> NULL,
   date_num_format |-> NULL, spec_date_time_format |-> NULL,
   spec_date_time_num_format |-> NULL, is_json_log_format |-> 0,
   bandwidth |-> 0, serve_usecs |-> 0, date_spec_hr |-> 0,
   append_method |-> TRUE, append_protocol |-> TRUE, double_decode |-> FALSE,
   no_ip_validation |-> FALSE, no_strict_status |-> FALSE]

\* the bytes unescape_str writes from src[p] on: a byte after an odd run of
\* backslashes is an escaped byte, a backslash after an even run starts an
\* escape and writes nothing itself
unescape_from(src, p) ==
  LET run(i) == i - 1 - (CHOOSE j \in (p - 1)..(i - 1) :
                           /\ (j = p - 1 \/ src[j] # "\\")
                           /\ \A k \in (j + 1)..(i - 1) : src[k] = "\\")
      esc(c) == CASE c = "n" -> "\n" [] c = "r" -> "\r" [] c = "t" -> "\t" [] OTHER -> c
  IN Flatten([i \in 1..Len(src) |->
       IF i < p THEN <<>>
       ELSE IF run(i) % 2 = 1 THEN <<esc(src[i])>>
       ELSE IF src[i] = "\\" THEN <<>>
       ELSE <<src[i]>>])

unescape_str(src) == IF src = <<>> THEN NULL ELSE Some(unescape_from(src, 1))

LOGTYPE ==
  << <<"C","O","M","B","I","N","E","D">>, <<"V","C","O","M","B","I","N","E","D">>, <<"C","O","M","M","O","N">>, <<"V","C","O","M","M","O","N">>, <<"W","3","C">>, <<"C","L","O","U","D","F","R","O","N","T">>,
     <<"C","L","O","U","D","S","T","O","R","A","G","E">>, <<"A","W","S","E","L","B">>, <<"S","Q","U","I","D">>, <<"A","W","S","S","3">>, <<"C","A","D","D","Y">>, <<"A","W","S","A","L","B">>, <<"T","R","A","E","F","I","K","C","L","F">> >>

str2enum(map, str) ==
  IF \E i \in 1..Len(map) : map[i] = str
  THEN (CHOOSE i \in 1..Len(map) : map[i] = str) - 1
  ELSE -1

get_log_format_item_enum(str) ==
  IF str2enum(LOGTYPE, str) >= 0 THEN str2enum(LOGTYPE, str)
  ELSE str2enum(LOGTYPE, strtoupper(str))

\* the predefined log formats, in the order of the LOGTYPE enumeration
logs ==
  << <<"%","h"," ","%","^","[","%","d",":","%","t"," ","%","^","]"," ","\"","%","r","\""," ","%","s"," ","%","b"," ","\"","%","R","\""," ","\"","%","u","\"">>,
     <<"%","v",":","%","^"," ","%","h"," ","%","^","[","%","d",":","%","t"," ","%","^","]"," ","\"","%","r","\""," ","%","s"," ","%","b"," ","\"","%","R","\""," ","\"","%","u","\"">>,
     <<"%","h"," ","%","^","[","%","d",":","%","t"," ","%","^","]"," ","\"","%","r","\""," ","%","s"," ","%","b">>,
     <<"%","v",":","%","^"," ","%","h"," ","%","^","[","%","d",":","%","t"," ","%","^","]"," ","\"","%","r","\""," ","%","s"," ","%","b">>,
     <<"%","d"," ","%","t"," ","%","^"," ","%","m"," ","%","U"," ","%","q"," ","%","^"," ","%","^"," ","%","h"," ","%","u"," ","%","R"," ","%","s"," ","%","^"," ","%","^"," ","%","L">>,
     <<"%","d","\\","t","%","t","\\","t","%","^","\\","t","%","b","\\","t","%","h","\\","t","%","m","\\","t","%","v","\\","t","%","U","\\","t","%","s","\\","t","%","R","\\","t","%","u","\\","t","%","q","\\","t","%","^","\\","t","%","C","\\","t","%","^","\\","t","%","^","\\","t","%","^","\\","t","%","^","\\","t","%","T","\\","t","%","^","\\","t","%","K","\\","t","%","k","\\","t","%","^","\\","t","%","H","\\","t","%","^">>,
     <<"\"","%","x","\"",",","\"","%","h","\"",",","%","^",",","%","^",",","\"","%","m","\"",",","\"","%","U","\"",",","\"","%","s","\"",",","%","^",",","\"","%","b","\"",",","\"","%","D","\"",",","%","^",",","\"","%","R","\"",",","\"","%","u","\"">>,
     <<"%","^"," ","%","d","T","%","t",".","%","^"," ","%","^"," ","%","h",":","%","^"," ","%","^"," ","%","^"," ","%","T"," ","%","^"," ","%","s"," ","%","^"," ","%","^"," ","%","b"," ","\"","%","r","\""," ","\"","%","u","\""," ","%","k"," ","%","K"," ","%","^"," ","\"","%","^","\""," ","\"","%","v","\"">>,
     <<"%","^"," ","%","^"," ","%","^"," ","%","v"," ","%","^",":"," ","%","x",".","%","^"," ","%","~","%","L"," ","%","h"," ","%","^","/","%","s"," ","%","b"," ","%","m"," ","%","U">>,
     <<"%","^"," ","%","v"," ","[","%","d",":","%","t"," ","%","^","]"," ","%","h"," ","%","^","\"","%","r","\""," ","%","s"," ","%","^"," ","%","b"," ","%","^"," ","%","L"," ","%","^"," ","\"","%","R","\""," ","\"","%","u","\"">>,
     <<"{"," ","\"","t","s","\"",":"," ","\"","%","x",".","%","^","\"",","," ","\"","r","e","q","u","e","s","t","\"",":"," ","{"," ","\"","c","l","i","e","n","t","_","i","p","\"",":"," ","\"","%","h","\"",","," ","\"","p","r","o","t","o","\"",":","\"","%","H","\"",","," ","\"","m","e","t","h","o","d","\"",":"," ","\"","%","m","\"",","," ","\"","h","o","s","t","\"",":"," ","\"","%","v","\"",","," ","\"","u","r","i","\"",":"," ","\"","%","U","\"",","," ","\"","h","e","a","d","e","r","s","\"",":"," ","{","\"","U","s","e","r","-","A","g","e","n","t","\"",":"," ","[","\"","%","u","\"","]",","," ","\"","R","e","f","e","r","e","r","\"",":"," ","[","\"","%","R","\"","]"," ","}",","," ","\"","t","l","s","\"",":"," ","{"," ","\"","c","i","p","h","e","r","_","s","u","i","t","e","\"",":","\"","%","k","\"",","," ","\"","p","r","o","t","o","\"",":"," ","\"","%","K","\""," ","}"," ","}",","," ","\"","d","u","r","a","t","i","o","n","\"",":"," ","\"","%","T","\"",","," ","\"","s","i","z","e","\"",":"," ","\"","%","b","\"",",","\"","s","t","a","t","u","s","\"",":"," ","\"","%","s","\"",","," ","\"","r","e","s","p","_","h","e","a","d","e","r","s","\"",":"," ","{"," ","\"","C","o","n","t","e","n","t","-","T","y","p","e","\"",":"," ","[","\"","%","M","\"","]"," ","}"," ","}">>,
     <<"%","^"," ","%","d","T","%","t",".","%","^"," ","%","v"," ","%","h",":","%","^"," ","%","^"," ","%","^"," ","%","T"," ","%","^"," ","%","s"," ","%","^"," ","%","^"," ","%","b"," ","\"","%","r","\""," ","\"","%","u","\""," ","%","k"," ","%","K"," ","%","^">>,
     <<"%","h"," ","-"," ","%","e"," ","[","%","d",":","%","t"," ","%","^","]"," ","\"","%","r","\""," ","%","s"," ","%","b"," ","\"","%","R","\""," ","\"","%","u","\""," ","%","^"," ","\"","%","v","\""," ","\"","%","U","\""," ","%","L","m","s">> >>

times == [fmt24 |-> <<"%","H",":","%","M",":","%","S">>, usec |-> <<"%","f">>, sec |-> <<"%","s">>]

dates == [apache |-> <<"%","d","/","%","b","/","%","Y">>, w3c |-> <<"%","Y","-","%","m","-","%","d">>, usec |-> <<"%","f">>, sec |-> <<"%","s">>]

get_selected_format_str(idx) == IF idx \in 0..12 THEN Some(logs[idx + 1]) ELSE NULL

get_selected_date_str(idx) ==
  LET name == IF idx \in 0..12 THEN LOGTYPE[idx + 1] ELSE <<>> IN
  IF name \in {<<"C","O","M","M","O","N">>, <<"V","C","O","M","M","O","N">>, <<"C","O","M","B","I","N","E","D">>, <<"V","C","O","M","B","I","N","E","D">>, <<"A","W","S","S","3">>, <<"T","R","A","E","F","I","K","C","L","F">>}
  THEN Some(dates.apache)
  ELSE IF name \in {<<"A","W","S","E","L","B">>, <<"A","W","S","A","L","B">>, <<"C","L","O","U","D","F","R","O","N","T">>, <<"W","3","C">>} THEN Some(dates.w3c)
  ELSE IF name = <<"C","L","O","U","D","S","T","O","R","A","G","E">> THEN Some(dates.usec)
  ELSE IF name \in {<<"S","Q","U","I","D">>, <<"C","A","D","D","Y">>} THEN Some(dates.sec)
  ELSE NULL

get_selected_time_str(idx) ==
  LET name == IF idx \in 0..12 THEN LOGTYPE[idx + 1] ELSE <<>> IN
  IF name \in {<<"A","W","S","E","L","B">>, <<"A","W","S","A","L","B">>, <<"C","L","O","U","D","F","R","O","N","T">>, <<"C","O","M","B","I","N","E","D">>, <<"C","O","M","M","O","N">>, <<"V","C","O","M","B","I","N","E","D">>,
               <<"V","C","O","M","M","O","N">>, <<"W","3","C">>, <<"A","W","S","S","3">>, <<"T","R","A","E","F","I","K","C","L","F">>}
  THEN Some(times.fmt24)
  ELSE IF name = <<"C","L","O","U","D","S","T","O","R","A","G","E">> THEN Some(times.usec)
  ELSE IF name \in {<<"S","Q","U","I","D">>, <<"C","A","D","D","Y">>} THEN Some(times.sec)
  ELSE NULL

set_date_format_str(cf, oarg) ==
  LET selected(fmt) == IF fmt = NULL THEN cf ELSE [cf EXCEPT !.date_format = fmt]
      typed(type) == IF type = -1 THEN [cf EXCEPT !.date_format = unescape_str(oarg)]
                     ELSE selected(get_selected_date_str(type))
  IN typed(get_log_format_item_enum(oarg))

set_time_format_str(cf, oarg) ==
  LET selected(fmt) == IF fmt = NULL THEN cf ELSE [cf EXCEPT !.time_format = fmt]
      typed(type) == IF type = -1 THEN [cf EXCEPT !.time_format = unescape_str(oarg)]
                     ELSE selected(get_selected_time_str(type))
  IN typed(get_log_format_item_enum(oarg))

\* the do-while loop of is_json_log_format, at most n more iterations: the
\* last event [t, j]; the loop ends at JSON_DONE or JSON_ERROR
RECURSIVE json_events(_, _)
json_events(e, n) ==
  IF n = 0 \/ e.t \in {"JSON_DONE", "JSON_ERROR"} THEN e
  ELSE IF n = 1 THEN json_next(e.j)
  ELSE json_events(json_events(e, n \div 2), n - n \div 2)

\* every iteration reads at least one byte or ends the loop
is_json_log_format(fmt) ==
  IF json_events([t |-> "JSON_NULL", j |-> json_set_streaming(json_open_string(fmt), FALSE)],
                 Len(fmt) + 2).t = "JSON_ERROR"
  THEN 0 ELSE 1

contains_specifier(cf) ==
  IF cf.log_format = NULL THEN [cf EXCEPT !.serve_usecs = 0, !.bandwidth = 0]
  ELSE LET has(x) == strstr(Val(cf.log_format), x) # 0 IN
       [cf EXCEPT !.bandwidth = IF has(<<"%","b">>) THEN 1 ELSE 0,
                  !.serve_usecs = IF has(<<"%","D">>) \/ has(<<"%","T">>) \/ has(<<"%","L">>) THEN 1 ELSE 0]

\* both returns of the function set the flag for a document template, store
\* the unescaped template and run contains_specifier; a preset goes on to the
\* time and date formats
set_log_format_str(cf, oarg) ==
  LET set(type, fmt, json) ==
        LET c2 == contains_specifier([cf EXCEPT !.is_json_log_format = IF json = 1 THEN 1 ELSE @,
                                                !.log_format = unescape_str(fmt)])
        IN IF type = -1 THEN c2 ELSE set_date_format_str(set_time_format_str(c2, oarg), oarg)
      selected(type, fmt) == set(type, fmt, is_json_log_format(fmt))
      typed(type) ==
        selected(type, IF type = -1 THEN oarg ELSE Val(get_selected_format_str(type)))
  IN typed(get_log_format_item_enum(oarg))

\* the message verify_formats returns, NULL when the three formats are set
verify_formats(cf) ==
  IF cf.time_format = NULL \/ Val(cf.time_format) = <<>>
  THEN Some("No time format was found on your conf file.")
  ELSE IF cf.date_format = NULL \/ Val(cf.date_format) = <<>>
       THEN Some("No date format was found on your conf file.")
  ELSE IF cf.log_format = NULL \/ Val(cf.log_format) = <<>>
       THEN Some("No log format was found on your conf file.")
  ELSE NULL

has_timestamp(fmt) == IF fmt = <<"%","s">> \/ fmt = <<"%","f">> THEN 1 ELSE 0

RECURSIVE clean_from(_, _, _)
clean_from(format, pr, special) ==
  IF pr > Len(format) THEN <<>>
  ELSE IF format[pr] = "%" \/ special
       THEN <<format[pr]>> \o clean_from(format, pr + 1, ~special)
       ELSE clean_from(format, pr + 1, special)

clean_date_time_format(format) ==
  IF format = NULL \/ Val(format) = <<>> THEN NULL ELSE Some(clean_from(Val(format), 1, FALSE))

set_format_date(cf) ==
  IF has_timestamp(Val(cf.date_format)) = 1 THEN Some(<<"%","Y","%","m","%","d">>)
  ELSE clean_date_time_format(cf.date_format)

is_date_abbreviated(fdate) == IF strpbrk(fdate, 1, <<"c","D","F">>) # 0 THEN 1 ELSE 0

\* [ret, cf]
set_date_num_format(cf) ==
  LET fdate == set_format_date(cf) IN
  IF fdate = NULL THEN [ret |-> 1, cf |-> cf]
  ELSE IF is_date_abbreviated(Val(fdate)) = 1
       THEN [ret |-> 0, cf |-> [cf EXCEPT !.date_num_format = Some(<<"%","Y","%","m","%","d">>)]]
  ELSE LET buf == <<"%","Y">>
                  \o (IF strpbrk(Val(fdate), 1, <<"h","b","m","B","f","*">>) # 0 THEN <<"%","m">> ELSE <<>>)
                  \o (IF strpbrk(Val(fdate), 1, <<"d","e","f","*">>) # 0 THEN <<"%","d">> ELSE <<>>)
       IN [ret |-> 0, cf |-> [cf EXCEPT !.date_num_format = Some(buf)]]

set_format_time(cf) ==
  IF has_timestamp(Val(cf.date_format)) = 1 \/ Val(cf.time_format) = <<"%","T">> THEN Some(<<"%","H","%","M","%","S">>)
  ELSE clean_date_time_format(cf.time_format)

set_spec_date_time_num_format(cf) ==
  LET tf == set_format_time(cf)
      df == cf.date_num_format
  IN IF df = NULL \/ tf = NULL THEN cf
     ELSE IF cf.date_spec_hr = 1 /\ strchr(Val(tf), 1, "H") # 0
          THEN [cf EXCEPT !.spec_date_time_num_format = Some(Val(df) \o <<"%","H">>)]
     ELSE IF cf.date_spec_hr = 2 /\ strchr(Val(tf), 1, "M") # 0
          THEN [cf EXCEPT !.spec_date_time_num_format = Some(Val(df) \o <<"%","H","%","M">>)]
     ELSE [cf EXCEPT !.spec_date_time_num_format = df]

set_spec_date_time_format(cf) ==
  IF cf.spec_date_time_num_format = NULL THEN cf
  ELSE LET fmt == Val(cf.spec_date_time_num_format)
           has(c) == strchr(fmt, 1, c) # 0
       IN [cf EXCEPT !.spec_date_time_format = Some(
             (IF has("d") THEN <<"%","d","/">> ELSE <<>>) \o (IF has("m") THEN <<"%","b","/">> ELSE <<>>)
             \o (IF has("Y") THEN <<"%","Y">> ELSE <<>>) \o (IF has("H") THEN <<":","%","H">> ELSE <<>>)
             \o (IF has("M") THEN <<":","%","M">> ELSE <<>>))]

----------------------------------------------------------------------------
(* Structured-document lines: keys, the dictionary and the callbacks *)

RECURSIVE dec_json_key_from(_, _, _)
dec_json_key_from(key, i, has_dot) ==
  IF i > has_dot THEN key
  ELSE LET last_dot == strrchr(key, 1, ".") IN
       IF last_dot # 0 THEN dec_json_key_from(SubSeq(key, 1, last_dot - 1), i + 1, has_dot)
       ELSE <<>>

\* key is NULL or Some(text); the result is the key after the call
dec_json_key(key, has_dot) ==
  IF key = NULL \/ has_dot < 0 THEN key ELSE Some(dec_json_key_from(Val(key), 0, has_dot))

append_str(dest, src) == dest \o src

\* the dictionary is a function from key paths to specifier strings
ht_insert_json_logfmt(dict, key, spec) ==
  [k \in (DOMAIN dict) \cup {key} |-> IF k = key THEN spec ELSE dict[k]]

ht_get_json_logfmt(dict, key) == IF key \in DOMAIN dict THEN Some(dict[key]) ELSE NULL

\* [ret, li, cf]
parse_json_specifier(li, key, str, cf, dict) ==
  IF key = NULL \/ str = NULL THEN [ret |-> 0, li |-> li, cf |-> cf]
  ELSE IF Val(str) = <<>> THEN [ret |-> 0, li |-> li, cf |-> cf]
  ELSE IF ht_get_json_logfmt(dict, Val(key)) = NULL THEN [ret |-> 0, li |-> li, cf |-> cf]
  ELSE parse_format(li, Val(str), Val(ht_get_json_logfmt(dict, Val(key))), cf)

\* the state of one parse_json_string call before its first event
pjs_start(str) ==
  [json |-> json_open_string(str), key |-> NULL, level |-> 0, has_dot |-> 0,
   ret |-> 0, done |-> FALSE]

\* the callback cb(ptr_data, key, val): [ret, data, cf]; data is the record
\* for parse_json_specifier and the dictionary for ht_insert_json_logfmt
json_cb(cb, data, key, val, cf, dict) ==
  IF cb = "ht_insert_json_logfmt"
  THEN [ret |-> 0, data |-> ht_insert_json_logfmt(data, Val(key), val), cf |-> cf]
  ELSE LET result(r) == [ret |-> r.ret, data |-> r.li, cf |-> r.cf] IN
       result(parse_json_specifier(data, key, Some(val), cf, dict))

\* one iteration of the do-while loop of parse_json_string: [s, data, cf].
\* The callback is applied at one place: the cases of the switch that call it
\* give the value and the count of dots dec_json_key takes afterwards.
parse_json_string_iter(s, cb, data, cf, dict) ==
  LET out(s2, d, c) == [s |-> s2, data |-> d, cf |-> c]
      called(s2, g, dots, r) ==
        IF r.ret # 0 THEN out([s2 EXCEPT !.done = TRUE, !.ret = r.ret], r.data, r.cf)
        ELSE out([s2 EXCEPT !.level = g.count,
                            !.key = IF g.ctx # "JSON_ARRAY" THEN dec_json_key(s2.key, dots)
                                    ELSE s2.key], r.data, r.cf)
      on_event(e) ==
        LET t == e.t
            s1 == [s EXCEPT !.json = e.j, !.done = (t = "JSON_DONE" \/ t = "JSON_ERROR")]
            g == json_get_context(e.j, s1.level)
            text == json_get_string(e.j)
            s2 == [s1 EXCEPT !.level = g.count]
            fixed == t \in {"JSON_TRUE", "JSON_FALSE", "JSON_NULL"}
        IN CASE t = "JSON_OBJECT" ->
                  out([s1 EXCEPT !.key = IF s1.key = NULL THEN Some(<<>>) ELSE s1.key], data, cf)
             [] t \in {"JSON_ARRAY_END", "JSON_OBJECT_END"} ->
                  out([s1 EXCEPT !.key = dec_json_key(s1.key, 0)], data, cf)
             [] fixed /\ s1.key = NULL -> out([s1 EXCEPT !.done = TRUE], data, cf)
             [] t \in {"JSON_STRING", "JSON_NUMBER"} /\ g.count % 2 # 0 /\ g.ctx # "JSON_ARRAY" ->
                  out([s2 EXCEPT !.has_dot = count_matches(text, "."),
                                 !.key = Some(append_str(
                                           IF Val(s2.key) # <<>>
                                           THEN append_str(Val(s2.key), <<".">>) ELSE Val(s2.key),
                                           text))], data, cf)
             [] t \in {"JSON_STRING", "JSON_NUMBER"}
                  /\ ~(s2.key # NULL
                       /\ (g.ctx = "JSON_ARRAY" \/ (g.count % 2 = 0 /\ g.ctx # "JSON_ARRAY"))) ->
                  out(s2, data, cf)
             [] fixed \/ t \in {"JSON_STRING", "JSON_NUMBER"} ->
                  called(IF fixed THEN s1 ELSE s2, g, IF fixed THEN 0 ELSE s2.has_dot,
                         json_cb(cb, data, s1.key,
                                 CASE t = "JSON_TRUE" -> <<"t","r","u","e">>
                                   [] t = "JSON_FALSE" -> <<"f","a","l","s","e">>
                                   [] t = "JSON_NULL" -> <<"-">>
                                   [] OTHER -> text,
                                 cf, dict))
             [] t = "JSON_ERROR" -> out([s1 EXCEPT !.ret = -1], data, cf)
             [] OTHER -> out(s1, data, cf)
  IN on_event(json_next(s.json))

\* the do-while loop of parse_json_string, at most n more iterations:
\* [s, data, cf]
RECURSIVE parse_json_string_run(_, _, _, _)
parse_json_string_run(x, cb, dict, n) ==
  IF n = 0 \/ x.s.done THEN x
  ELSE IF n = 1 THEN parse_json_string_iter(x.s, cb, x.data, x.cf, dict)
  ELSE parse_json_string_run(parse_json_string_run(x, cb, dict, n \div 2), cb, dict,
                             n - n \div 2)

\* [ret, data, cf] of parse_json_string(ptr_data, str, cb); every iteration
\* reads at least one byte or ends the loop
parse_json_string(data, str, cb, cf, dict) ==
  LET result(x) == [ret |-> x.s.ret, data |-> x.data, cf |-> x.cf] IN
  result(parse_json_string_run([s |-> pjs_start(str), data |-> data, cf |-> cf], cb, dict,
                               Len(str) + 2))

\* [fatal, cf, dict]
set_spec_date_format(cf, dict) ==
  LET formats(d) ==
        IF d.ret = 0 THEN set_spec_date_time_format(set_spec_date_time_num_format(d.cf))
        ELSE d.cf
      inserted(ins) ==
        IF ins.ret = -1 THEN [fatal |-> TRUE, cf |-> cf, dict |-> ins.data]
        ELSE [fatal |-> FALSE, dict |-> ins.data,
              cf |-> formats(set_date_num_format(
                       [cf EXCEPT !.date_num_format = NULL, !.spec_date_time_format = NULL,
                                  !.spec_date_time_num_format = NULL]))]
  IN IF verify_formats(cf) # NULL THEN [fatal |-> FALSE, cf |-> cf, dict |-> dict]
     ELSE inserted(IF cf.is_json_log_format = 1
                   THEN parse_json_string(dict, Val(cf.log_format), "ht_insert_json_logfmt",
                                          cf, dict)
                   ELSE [ret |-> 0, data |-> dict, cf |-> cf])

----------------------------------------------------------------------------
(* The program as a state machine: configuration, then parse_line calls *)

\* parse_line calls in a run
MaxCalls == 1

\* set_log_format_str calls in a run
MaxConfigs == 2

\* the option arguments the driver passes to set_log_format_str
LogFormats ==
  { <<"C","O","M","B","I","N","E","D">>, <<"C","O","M","M","O","N">>, <<"C","A","D","D","Y">>,
    <<"%","b"," ","%","b">>,
    <<"%","m"," ","%","h"," ","%","d"," ","\"","%","r","\"">>,
    <<"~","h">>,
    <<"~","h","{",",","}","|","%","d"," ","\"","%","r","\"">>,
    <<"~","h","{",","," ","}">>,
    <<"%","v","|","x">>,
    <<"%","L">>, <<"%","T">>, <<"%","D">>, <<"%","n">>,
    <<"{","\"","h","o","s","t","\"",":","\"","%","h","\"",",","\"","d","a","t","e","\"",":","\"","%","d","\"",",","\"","t","i","m","e","\"",":","\"","%","t","\"",",","\"","r","e","q","\"",":","\"","%","r","\"","}">> }

\* for a custom template the driver also passes a date and a time format
DateFormats == { <<"%","d","/","%","b","/","%","Y">> }

TimeFormats == { <<"%","H",":","%","M",":","%","S">> }

\* the user flags of the configuration: the initializer's values, and runs
\* with one of the validation flags or double decoding switched on
Flags ==
  { [no_strict_status |-> FALSE, no_ip_validation |-> FALSE, double_decode |-> FALSE],
    [no_strict_status |-> TRUE, no_ip_validation |-> FALSE, double_decode |-> FALSE],
    [no_strict_status |-> FALSE, no_ip_validation |-> TRUE, double_decode |-> TRUE] }

\* the zones the process may run in, in seconds east of UTC
LocalZones == {0, 28800}

\* the lines the driver passes to parse_line
Lines ==
  { <<>>, <<"#"," ","c","o","m","m","e","n","t">>, <<"\n">>,
    <<"1","1","4",".","5",".","1",".","4"," ","-"," ","-"," ","[","1","1","/","J","u","n","/","2","0","2","3",":","0","1",":","2","3",":","4","5"," ","+","0","8","0","0","]"," ","\"","G","E","T"," ","/","e","x","a","m","p","l","e","/","p","a","t","h","/","f","i","l","e",".","i","m","g"," ","H","T","T","P","/","1",".","1","\""," ","4","2","9"," ","5","6","8"," ","\"","-","\""," ","\"","M","o","z","i","l","l","a","/","5",".","0"," ","(","W","i","n","d","o","w","s"," ","N","T"," ","1","0",".","0",")","\"">>,
    <<"1","1","4",".","5",".","1",".","4"," ","-"," ","-"," ","[","1","1","/","J","u","n","/","2","0","2","3",":","0","1",":","2","3",":","4","5"," ","+","0","8","0","0","]"," ","\"","G","E","T"," ","/","a"," ","H","T","T","P","/","1",".","1","\""," ","4","6","3"," ","5","6","8"," ","\"","-","\""," ","\"","c","u","r","l","\"">>,
    <<"1","1","4",".","5",".","1",".","4"," ","-"," ","-"," ","[","1","1","/","J","u","n","/","2","0","2","3",":","0","1",":","2","3",":","4","5"," ","+","0","8","0","0","]"," ","\"","G","E","T"," ","/","a"," ","H","T","T","P","/","1",".","1","\""," ","9","9","9"," ","5","6","8"," ","\"","-","\""," ","\"","c","u","r","l","\"">>,
    <<":",":","1"," ","-"," ","-"," ","[","0","1","/","F","e","b","/","2","0","2","4",":","2","3",":","5","9",":","5","9"," ","+","0","0","0","0","]"," ","\"","P","O","S","T"," ","/","a","%","2","0","b"," ","H","T","T","P","/","2","\""," ","2","0","0"," ","0"," ","\"","h","t","t","p","s",":","/","/","w","w","w",".","g","o","o","g","l","e",".","c","o","m","/","s","e","a","r","c","h","?","q","=","h","e","l","l","o","+","w","o","r","l","d","&","i","e","=","U","T","F","-","8","\""," ","\"","c","u","r","l","\"">>,
    <<"9","9","9",".","5",".","1",".","4"," ","-"," ","-"," ","[","1","1","/","J","u","n","/","2","0","2","3",":","0","1",":","2","3",":","4","5"," ","+","0","8","0","0","]"," ","\"","G","E","T"," ","/","a"," ","H","T","T","P","/","1",".","1","\""," ","2","0","0"," ","5"," ","\"","-","\""," ","\"","c","u","r","l","\"">>,
    <<"1","1","4",".","5",".","1",".","4"," ","-"," ","-"," ","[","1","1","/","F","o","o","/","2","0","2","3",":","0","1",":","2","3",":","4","5"," ","+","0","8","0","0","]"," ","\"","G","E","T"," ","/","a"," ","H","T","T","P","/","1",".","1","\""," ","2","0","0"," ","5"," ","\"","-","\""," ","\"","c","u","r","l","\"">>,
    <<"1","1","4",".","5",".","1",".","4"," ","-"," ","-"," ","[","1","1","/","J","u","n","/","2","0","2","3",":","0","1",":","2","3",":","4","5"," ","+","0","8","0","0","]"," ","\"","F","O","O"," ","/","a"," ","H","T","T","P","/","1",".","1","\""," ","2","0","0"," ","5"," ","\"","-","\""," ","\"","c","u","r","l","\"">>,
    <<"1","1","4",".","5",".","1",".","4"," ","-"," ","-"," ","[","1","1","/","J","u","n","/","2","0","2","3",":","0","1",":","2","3",":","4","5"," ","+","0","8","0","0","]"," ","\"","G","E","T"," ","/","a"," ","H","T","T","P","/","1",".","1","\""," ","2","0","0">>,
    <<"1","1","4",".","5",".","1",".","4"," ","-"," ","-"," ","[","1","1","/","J","u","n","/","2","0","2","3",":","0","1",":","2","3",":","4","5"," ","+","0","8","0","0","]"," ","\"","G","E","T"," ","/","a"," ","H","T","T","P","/","1",".","1","\""," ","2","0","0"," ","1","2">>,
    <<"0"," ","5">>, <<"7"," ","5">>,
    <<"7">>, <<"2","0","0","0">>, <<"a","b","c">>,
    <<"P","O","S","T"," ","1",".","2",".","3",".","4"," ","1","1","/","J","u","n","/","2","0","2","3"," ","\"","G","E","T"," ","/","x"," ","H","T","T","P","/","1",".","1","\"">>,
    <<"1",".","2",".","3",".","4">>,
    <<"x",",","1",".","2",".","3",".","4",",",":",":","1","|","1","1","/","J","u","n","/","2","0","2","3"," ","\"","G","E","T"," ","/","x"," ","H","T","T","P","/","1",".","1","\"">>,
    <<"x","|","1",".","2",".","3",".","4">>,
    <<"x",","," ",":",":","1",","," ","1",".","2",".","3",".","4">>,
    <<"a","|">>, <<"a","|","x">>, <<"a">>,
    <<"{","\"","h","o","s","t","\"",":","\"","1",".","2",".","3",".","4","\"",",","\"","d","a","t","e","\"",":","\"","1","1","/","J","u","n","/","2","0","2","3","\"",",","\"","t","i","m","e","\"",":","\"","0","1",":","2","3",":","4","5","\"",",","\"","r","e","q","\"",":","\"","G","E","T"," ","/","x"," ","H","T","T","P","/","1",".","1","\"","}">>,
    <<"{","\"","h","o","s","t","\"",":","\"","1",".","2",".","3",".","4","\"",",","\"","d","a","t","e","\"",":","\"","1","1","/","J","u","n","/","2","0","2","3","\"","}">>,
    <<"{","\"","h","o","s","t","\"",":","\"","1",".","2",".","3",".","4","\"","}">>,
    <<"{","\"","h","o","s","t","\"",":","\"","1",".","2",".","3",".","9","9","9","\"","}">>,
    <<"{">>,
    <<"{","\"","l","e","v","e","l","\"",":","\"","i","n","f","o","\"",",","\"","t","s","\"",":","1","6","4","6","8","6","1","4","0","1",".","5","2","4","1","0","2","4",",","\"","l","o","g","g","e","r","\"",":","\"","h","t","t","p",".","l","o","g",".","a","c","c","e","s","s","\"",",","\"","m","s","g","\"",":","\"","h","a","n","d","l","e","d"," ","r","e","q","u","e","s","t","\"",",","\"","r","e","q","u","e","s","t","\"",":","{","\"","r","e","m","o","t","e","_","i","p","\"",":","\"","1","2","7",".","0",".","0",".","1","\"",",","\"","r","e","m","o","t","e","_","p","o","r","t","\"",":","\"","4","1","3","4","2","\"",",","\"","c","l","i","e","n","t","_","i","p","\"",":","\"","1","2","7",".","0",".","0",".","1","\"",",","\"","p","r","o","t","o","\"",":","\"","H","T","T","P","/","2",".","0","\"",",","\"","m","e","t","h","o","d","\"",":","\"","G","E","T","\"",",","\"","h","o","s","t","\"",":","\"","l","o","c","a","l","h","o","s","t","\"",",","\"","u","r","i","\"",":","\"","/","\"",",","\"","h","e","a","d","e","r","s","\"",":","{","\"","U","s","e","r","-","A","g","e","n","t","\"",":","[","\"","c","u","r","l","/","7",".","8","2",".","0","\"","]",",","\"","A","c","c","e","p","t","\"",":","[","\"","*","/","*","\"","]",",","\"","A","c","c","e","p","t","-","E","n","c","o","d","i","n","g","\"",":","[","\"","g","z","i","p",","," ","d","e","f","l","a","t","e",","," ","b","r","\"","]","}",",","\"","t","l","s","\"",":","{","\"","r","e","s","u","m","e","d","\"",":","f","a","l","s","e",",","\"","v","e","r","s","i","o","n","\"",":","7","7","2",",","\"","c","i","p","h","e","r","_","s","u","i","t","e","\"",":","4","8","6","5",",","\"","p","r","o","t","o","\"",":","\"","h","2","\"",",","\"","s","e","r","v","e","r","_","n","a","m","e","\"",":","\"","e","x","a","m","p","l","e",".","c","o","m","\"","}","}",",","\"","b","y","t","e","s","_","r","e","a","d","\"",":","0",",","\"","u","s","e","r","_","i","d","\"",":","\"","\"",",","\"","d","u","r","a","t","i","o","n","\"",":","0",".","0","0","0","9","2","9","6","7","5",",","\"","s","i","z","e","\"",":","1","0","9","0","0",",","\"","s","t","a","t","u","s","\"",":","2","0","0",",","\"","r","e","s","p","_","h","e","a","d","e","r","s","\"",":","{","\"","S","e","r","v","e","r","\"",":","[","\"","C","a","d","d","y","\"","]",",","\"","C","o","n","t","e","n","t","-","E","n","c","o","d","i","n","g","\"",":","[","\"","g","z","i","p","\"","]",",","\"","C","o","n","t","e","n","t","-","T","y","p","e","\"",":","[","\"","t","e","x","t","/","h","t","m","l",";"," ","c","h","a","r","s","e","t","=","u","t","f","-","8","\"","]",",","\"","V","a","r","y","\"",":","[","\"","A","c","c","e","p","t","-","E","n","c","o","d","i","n","g","\"","]","}","}">>,
    <<"{","\"","t","s","\"",":","1","7","0","9","2","5","1","1","9","9",".","2","5",",","\"","r","e","q","u","e","s","t","\"",":","{","\"","c","l","i","e","n","t","_","i","p","\"",":","\"",":",":","1","\"",",","\"","p","r","o","t","o","\"",":","\"","H","T","T","P","/","1",".","1","\"",",","\"","m","e","t","h","o","d","\"",":","\"","P","O","S","T","\"",",","\"","h","o","s","t","\"",":","\"","h","\"",",","\"","u","r","i","\"",":","\"","/","a","\"","}",",","\"","d","u","r","a","t","i","o","n","\"",":","0",".","5",",","\"","s","i","z","e","\"",":","7",",","\"","s","t","a","t","u","s","\"",":","4","0","4","}">> }

\* no parse_format call in progress
NoFormat == pf_start(<<>>, <<>>)

\* no parse_json_string call in progress
NoJson == [pjs_start(<<>>) EXCEPT !.done = TRUE]

\* no decode_url call on its own
DecodeIdle == input_url = <<>> /\ single = NULL /\ double = NULL /\ repeated = NULL

\* no stream open on its own
JsonIdle == stream = json_open_string(<<>>) /\ event = "none" /\ nnext = 0

\* the threads that call str_to_time
NThreads == 3

Threads == 1..NThreads

\* no thread in str_to_time; tz_mutex is PTHREAD_MUTEX_INITIALIZER
TzIdle ==
  /\ tpc = [t \in Threads |-> "idle"]
  /\ tz_mutex = 0
  /\ tz = <<>>
  /\ converted = [t \in Threads |-> "none"]

\* no function applied on its own
CallIdle == call = <<>> /\ retval = <<>>

Init ==
  /\ conf \in { [conf_init EXCEPT !.no_strict_status = f.no_strict_status,
                                  !.no_ip_validation = f.no_ip_validation,
                                  !.double_decode = f.double_decode,
                                  !.TZ = z] : f \in Flags, z \in LocalZones }
  /\ json_logfmt = <<>>
  /\ pc = "start"
  /\ nconfigs = 0
  /\ ncalls = 0
  /\ line = <<>>
  /\ logitem = NULL
  /\ pf = NoFormat
  /\ js = NoJson
  /\ ret = 0
  /\ logitem_out = NULL
  /\ DecodeIdle /\ JsonIdle /\ TzIdle /\ CallIdle

\* set_log_format_str(oarg); a preset also sets the date and time formats
SetLogFormatStr(oarg) ==
  /\ pc \in {"start", "ready"}
  /\ nconfigs < MaxConfigs
  /\ conf' = set_log_format_str(conf, oarg)
  /\ nconfigs' = nconfigs + 1
  /\ pc' = IF get_log_format_item_enum(oarg) = -1 THEN "log_set" ELSE "fmt_set"
  /\ UNCHANGED <<json_logfmt, ncalls, line, logitem, pf, js, ret, logitem_out, auxvars>>

SetDateFormatStr(oarg) ==
  /\ pc = "log_set"
  /\ conf' = set_date_format_str(conf, oarg)
  /\ pc' = "date_set"
  /\ UNCHANGED <<json_logfmt, nconfigs, ncalls, line, logitem, pf, js, ret, logitem_out, auxvars>>

SetTimeFormatStr(oarg) ==
  /\ pc = "date_set"
  /\ conf' = set_time_format_str(conf, oarg)
  /\ pc' = "fmt_set"
  /\ UNCHANGED <<json_logfmt, nconfigs, ncalls, line, logitem, pf, js, ret, logitem_out, auxvars>>

\* set_spec_date_format(); FATAL ends the program
SetSpecDateFormat ==
  /\ pc = "fmt_set"
  /\ \E r \in {set_spec_date_format(conf, json_logfmt)} :
       /\ conf' = r.cf
       /\ json_logfmt' = r.dict
       /\ pc' = IF r.fatal THEN "fatal" ELSE "ready"
  /\ UNCHANGED <<nconfigs, ncalls, line, logitem, pf, js, ret, logitem_out, auxvars>>

\* parse_line up to the call of the tokenizer
ParseLineBegin(l) ==
  /\ pc = "ready"
  /\ ncalls < MaxCalls
  /\ line' = l
  /\ ret' = IF valid_line(l) THEN -1 ELSE 0
  /\ IF valid_line(l)
     THEN /\ pc' = "returned"
          /\ ncalls' = ncalls + 1
          /\ UNCHANGED <<logitem, pf, js>>
     ELSE /\ logitem' = Some(init_log_item)
          /\ ncalls' = ncalls
          /\ IF conf.is_json_log_format = 1
             THEN /\ js' = pjs_start(l)
                  /\ pc' = "json"
                  /\ UNCHANGED pf
             ELSE /\ pf' = pf_start(l, Val(conf.log_format))
                  /\ pc' = "format"
                  /\ UNCHANGED js
  /\ UNCHANGED <<conf, json_logfmt, nconfigs, logitem_out, auxvars>>

\* one iteration of parse_format's loop (literal mode)
ParseFormatStep ==
  /\ pc = "format"
  /\ \E n \in {parse_format_iter(pf, Val(logitem), conf)} :
       /\ pf' = n.f
       /\ logitem' = Some(n.li)
       /\ conf' = n.cf
       /\ ret' = IF n.f.done THEN n.f.ret ELSE ret
       /\ pc' = IF n.f.done THEN "verify" ELSE "format"
  /\ UNCHANGED <<json_logfmt, nconfigs, ncalls, line, js, logitem_out, auxvars>>

\* one iteration of parse_json_string's loop (document mode), the callback
\* parse_json_specifier included
ParseJsonStep ==
  /\ pc = "json"
  /\ \E n \in {parse_json_string_iter(js, "parse_json_specifier", Val(logitem), conf, json_logfmt)} :
       /\ js' = n.s
       /\ logitem' = Some(n.data)
       /\ conf' = n.cf
       /\ ret' = IF n.s.done THEN n.s.ret ELSE ret
       /\ pc' = IF n.s.done THEN "verify" ELSE "json"
  /\ UNCHANGED <<json_logfmt, nconfigs, ncalls, line, pf, logitem_out, auxvars>>

\* parse_line after the tokenizer: the required fields
VerifyMissing ==
  /\ pc = "verify"
  /\ IF ret # 0
     THEN UNCHANGED <<logitem, ret>>
     ELSE \E v \in {verify_missing_fields(Val(logitem))} :
            /\ logitem' = Some(v.li)
            /\ ret' = v.ret
  /\ pc' = "return"
  /\ UNCHANGED <<conf, json_logfmt, nconfigs, ncalls, line, pf, js, logitem_out, auxvars>>

\* the record after cleanup_logitem: it is freed
cleanup_logitem == NULL

\* parse_line's return: cleanup on failure, else the agent default and the
\* assignment through logitem_out
ParseLineReturn ==
  /\ pc = "return"
  /\ IF ret # 0
     THEN /\ logitem' = cleanup_logitem
          /\ UNCHANGED logitem_out
     ELSE /\ logitem_out' = Some(IF Val(logitem).agent = NULL
                                 THEN [Val(logitem) EXCEPT !.agent = Some(alloc_string(<<"-">>))]
                                 ELSE Val(logitem))
          /\ logitem' = NULL
  /\ pc' = "returned"
  /\ ncalls' = ncalls + 1
  /\ UNCHANGED <<conf, json_logfmt, nconfigs, line, pf, js, ret, auxvars>>

\* main between two calls: logitem = NULL
MainReset ==
  /\ pc = "returned"
  /\ logitem_out' = NULL
  /\ line' = <<>>
  /\ pf' = NoFormat
  /\ js' = NoJson
  /\ pc' = "ready"
  /\ UNCHANGED <<conf, json_logfmt, nconfigs, ncalls, logitem, ret, auxvars>>

Next ==
  \/ \E oarg \in LogFormats : SetLogFormatStr(oarg)
  \/ \E oarg \in DateFormats : SetDateFormatStr(oarg)
  \/ \E oarg \in TimeFormats : SetTimeFormatStr(oarg)
  \/ SetSpecDateFormat
  \/ \E l \in Lines : ParseLineBegin(l)
  \/ ParseFormatStep
  \/ ParseJsonStep
  \/ VerifyMissing
  \/ ParseLineReturn
  \/ MainReset

Spec == Init /\ [][Next]_vars

----------------------------------------------------------------------------
(* decode_url, json_next and str_to_time applied on their own *)

\* the main program at rest
MainIdle ==
  /\ json_logfmt = <<>>
  /\ nconfigs = 0
  /\ ncalls = 0
  /\ line = <<>>
  /\ logitem = NULL
  /\ pf = NoFormat
  /\ js = NoJson
  /\ ret = 0
  /\ logitem_out = NULL

\* the longest argument of decode_url
MaxUrlLen == 5

\* the bytes the arguments are made of
UrlBytes == {"%", "2", "5", "0", " ", "\n"}

\* the non-empty arguments
Urls == UNION {[1..n -> UrlBytes] : n \in 1..MaxUrlLen}

InitDecode ==
  /\ pc = "decode_url"
  /\ conf = conf_init
  /\ MainIdle
  /\ input_url \in Urls
  /\ single = NULL /\ double = NULL /\ repeated = NULL
  /\ JsonIdle /\ TzIdle /\ CallIdle

\* decode_url(url) with conf.double_decode = 0
DecodeSingle ==
  /\ pc = "decode_url"
  /\ single' = decode_url(input_url, conf.double_decode)
  /\ conf' = [conf EXCEPT !.double_decode = TRUE]
  /\ pc' = "double_decode"
  /\ UNCHANGED <<mainvars, input_url, double, repeated, jsonvars, tzvars, callvars>>

\* decode_url(url) with conf.double_decode = 1
DecodeDouble ==
  /\ pc = "double_decode"
  /\ double' = decode_url(input_url, conf.double_decode)
  /\ conf' = [conf EXCEPT !.double_decode = FALSE]
  /\ pc' = "decode_again"
  /\ UNCHANGED <<mainvars, input_url, single, repeated, jsonvars, tzvars, callvars>>

\* decode_url applied to the value the first call returned
DecodeAgain ==
  /\ pc = "decode_again"
  /\ repeated' = decode_url(Val(single), conf.double_decode)
  /\ pc' = "decoded"
  /\ UNCHANGED <<conf, mainvars, input_url, single, double, jsonvars, tzvars, callvars>>

NextDecode == DecodeSingle \/ DecodeDouble \/ DecodeAgain

SpecDecode == InitDecode /\ [][NextDecode]_vars

\* the calls of json_next made on one stream
MaxNext == 7

\* the documents a stream is opened on
JsonDocs ==
  { <<>>, <<"1">>, <<"1"," ">>, <<"1"," ","x">>, <<"1","2","x">>, <<"\"","a","\"">>, <<"\"","a","\""," ","\"","b","\"">>, <<"t","r","u","e">>, <<"t","r","u">>, <<"n","u","l","l"," ","\n">>,
    <<"{","}">>, <<"{","}"," ">>, <<"{","}","x">>, <<"{","}"," ","\t","\n">>, <<"[","]">>, <<"[","1",",","2","]">>, <<"[","1",",","2","]"," ","3">>, <<"[","1",",","]">>, <<"[","1"," ","2","]">>,
    <<"{","\"","a","\"",":","1","}">>, <<"{","\"","a","\"",":","1","}"," ">>, <<"{","\"","a","\"",":","1","}","{">>, <<"{","\"","a","\"",":","1","}","\n","{","\"","b","\"",":","2","}">>, <<"{","\"","a","\"","}">>, <<"{","\"","a","\"",":","}">>,
    <<"{","1",":","2","}">>, <<"{","\"","a","\"",":","[","1","]","}">>, <<"{","\"","a","\"",":","\"","%","h","\"","}"," ","x">>, <<"]">>, <<"x">>,
    <<" ">>, <<"[","{","\"","a","\"",":","1","}","]">>, <<"[","[","1","]",",","{","\"","a","\"",":","{","}","}","]">>, <<"{","\"","a","\"",":","[","]","}">>, <<"[","{","]">>, <<"{","\"","a","\"",":","1",",","\"","b","\"",":","{","}","}">> }

InitJson ==
  /\ pc = "json_next"
  /\ conf = conf_init
  /\ MainIdle
  /\ DecodeIdle /\ TzIdle /\ CallIdle
  /\ stream \in {json_set_streaming(json_open_string(d), m) : d \in JsonDocs, m \in BOOLEAN}
  /\ event = "none"
  /\ nnext = 0

\* one more call of json_next, whatever the last call returned
JsonNext ==
  /\ pc = "json_next"
  /\ nnext < MaxNext
  /\ \E e \in {json_next(stream)} :
       /\ stream' = e.j
       /\ event' = e.t
  /\ nnext' = nnext + 1
  /\ UNCHANGED <<conf, pc, mainvars, decvars, tzvars, callvars>>

NextJson == JsonNext

SpecJson == InitJson /\ [][NextJson]_vars

\* every thread is about to call str_to_time(str, fmt, tm, 1) with a textual
\* format and conf.tz_name set
InitTz ==
  /\ pc = "threads"
  /\ conf \in {[conf_init EXCEPT !.tz_name = Some(<<"A","s","i","a","/","S","h","a","n","g","h","a","i">>), !.TZ = z] : z \in LocalZones}
  /\ MainIdle
  /\ DecodeIdle /\ JsonIdle /\ CallIdle
  /\ tpc = [t \in Threads |-> "str_to_time"]
  /\ tz_mutex = 0
  /\ tz = <<>>
  /\ converted = [t \in Threads |-> "none"]

\* a thread is inside set_tz between taking and releasing tz_mutex, with the
\* zone not installed yet
Installing(u) == tpc[u] \in {"snprintf", "putenv", "tzset"}

\* str_to_time up to the call of set_tz: strptime and tm2time
StrToTime(t) ==
  /\ tpc[t] = "str_to_time"
  /\ tpc' = [tpc EXCEPT ![t] = IF conf.tz_name = NULL THEN "done" ELSE "pthread_mutex_lock"]
  /\ UNCHANGED <<conf, pc, mainvars, decvars, jsonvars, tz_mutex, tz, converted, callvars>>

\* set_tz: pthread_mutex_lock(&tz_mutex)
Lock(t) ==
  /\ tpc[t] = "pthread_mutex_lock"
  /\ tz_mutex = 0
  /\ tz_mutex' = t
  /\ tpc' = [tpc EXCEPT ![t] = "snprintf"]
  /\ UNCHANGED <<conf, pc, mainvars, decvars, jsonvars, tz, converted, callvars>>

\* set_tz: snprintf(tz, TZ_NAME_LEN, "TZ=%s", conf.tz_name)
Snprintf(t) ==
  /\ tpc[t] = "snprintf"
  /\ tz' = <<"T","Z","=">> \o Val(conf.tz_name)
  /\ tpc' = [tpc EXCEPT ![t] = "putenv"]
  /\ UNCHANGED <<conf, pc, mainvars, decvars, jsonvars, tz_mutex, converted, callvars>>

\* set_tz: putenv(tz); on failure the function goes to release
Putenv(t) ==
  /\ tpc[t] = "putenv"
  /\ \E failed \in BOOLEAN : tpc' = [tpc EXCEPT ![t] = IF failed THEN "pthread_mutex_unlock" ELSE "tzset"]
  /\ UNCHANGED <<conf, pc, mainvars, decvars, jsonvars, tz_mutex, tz, converted, callvars>>

\* set_tz: tzset() reads the environment
Tzset(t) ==
  /\ tpc[t] = "tzset"
  /\ conf' = [conf EXCEPT !.TZ = zone_offset(SubSeq(tz, 4, Len(tz)))]
  /\ tpc' = [tpc EXCEPT ![t] = "pthread_mutex_unlock"]
  /\ UNCHANGED <<pc, mainvars, decvars, jsonvars, tz_mutex, tz, converted, callvars>>

\* set_tz: pthread_mutex_unlock(&tz_mutex), and the return to str_to_time
Unlock(t) ==
  /\ tpc[t] = "pthread_mutex_unlock"
  /\ tz_mutex' = 0
  /\ tpc' = [tpc EXCEPT ![t] = "localtime_r"]
  /\ UNCHANGED <<conf, pc, mainvars, decvars, jsonvars, tz, converted, callvars>>

\* str_to_time: localtime_r(&t, tm) after set_tz has returned.  The call reads
\* the environment and the zone state of the library; while another thread
\* writes them the outcome is not defined
LocalTime(t) ==
  /\ tpc[t] = "localtime_r"
  /\ \E outcome \in {"local"} \cup (IF \E u \in Threads \ {t} : Installing(u)
                                    THEN {"undefined"} ELSE {}) :
       converted' = [converted EXCEPT ![t] = outcome]
  /\ tpc' = [tpc EXCEPT ![t] = "done"]
  /\ UNCHANGED <<conf, pc, mainvars, decvars, jsonvars, tz_mutex, tz, callvars>>

NextTz ==
  \/ \E t \in Threads : StrToTime(t)
  \/ \E t \in Threads : Lock(t)
  \/ \E t \in Threads : Snprintf(t)
  \/ \E t \in Threads : Putenv(t)
  \/ \E t \in Threads : Tzset(t)
  \/ \E t \in Threads : Unlock(t)
  \/ \E t \in Threads : LocalTime(t)

SpecTz == InitTz /\ [][NextTz]_vars

----------------------------------------------------------------------------
(* Functions of the tokenizer applied on their own *)

\* the longest line parse_string is applied to
MaxTextLen == 5

\* the bytes the lines are made of
TokenBytes == {"a", " ", ",", "\\"}

Texts == UNION {[1..n -> TokenBytes] : n \in 0..MaxTextLen}

\* the arguments of parse_string: the line, the cursor, the delimiter buffer
\* get_delim filled (empty or one byte) and the number of delimiters to match
ParseStringCalls ==
  { [s |-> t, str |-> i, delims |-> d, cnt |-> n] :
      t \in Texts, i \in 1..2, d \in {<<>>, <<",">>, <<" ">>}, n \in 1..2 }

InitToken ==
  /\ pc = "parse_string"
  /\ conf = conf_init
  /\ MainIdle
  /\ DecodeIdle /\ JsonIdle /\ TzIdle
  /\ call \in {a \in ParseStringCalls : a.str <= Len(a.s) + 1}
  /\ retval = <<>>

\* parse_string(&str, delims, cnt)
ParseString ==
  /\ pc = "parse_string"
  /\ retval' = parse_string(call.s, call.str, call.delims, call.cnt)
  /\ pc' = "parsed"
  /\ UNCHANGED <<conf, mainvars, decvars, jsonvars, tzvars, call>>

NextToken == ParseString

SpecToken == InitToken /\ [][NextToken]_vars

\* the status codes is_valid_http_status is applied to: the table's range
\* and one value beyond each end
StatusCodes == -1..600

InitStatus ==
  /\ pc = "is_valid_http_status"
  /\ conf = conf_init
  /\ MainIdle
  /\ DecodeIdle /\ JsonIdle /\ TzIdle
  /\ call \in {[code |-> n] : n \in StatusCodes}
  /\ retval = <<>>

\* is_valid_http_status(code), and the description the table holds for it
IsValidHttpStatus ==
  /\ pc = "is_valid_http_status"
  /\ retval' = [valid |-> is_valid_http_status(call.code),
                description |-> IF call.code \in codes THEN Some(codes_at(call.code)) ELSE NULL]
  /\ pc' = "validated"
  /\ UNCHANGED <<conf, mainvars, decvars, jsonvars, tzvars, call>>

NextStatus == IsValidHttpStatus

SpecStatus == InitStatus /\ [][NextStatus]_vars

\* the dictionary that holds the given <<key path, value>> pairs
Dict(pairs) == [k \in {x[1] : x \in pairs} |-> (CHOOSE x \in pairs : x[1] = k)[2]]

\* well-formed documents parse_json_string walks, each with the pairs of
\* dot-joined member names and scalar value that it contains
KeyDocs ==
  { [doc |-> <<"{","\"","a","\"",":","\"","1","\"","}">>, keys |-> {<<<<"a">>, <<"1">>>>}],
    [doc |-> <<"{","\"","a","\"",":","\"","1","\"",",","\"","b","\"",":","2","}">>, keys |-> {<<<<"a">>, <<"1">>>>, <<<<"b">>, <<"2">>>>}],
    [doc |-> <<"{","\"","a","\"",":","{","\"","b","\"",":","\"","1","\"","}",",","\"","c","\"",":","\"","2","\"","}">>, keys |-> {<<<<"a",".","b">>, <<"1">>>>, <<<<"c">>, <<"2">>>>}],
    [doc |-> <<"{","\"","a","\"",":","{","\"","b","\"",":","{","\"","c","\"",":","\"","1","\"","}",",","\"","d","\"",":","\"","2","\"","}",",","\"","e","\"",":","\"","3","\"","}">>,
     keys |-> {<<<<"a",".","b",".","c">>, <<"1">>>>, <<<<"a",".","d">>, <<"2">>>>, <<<<"e">>, <<"3">>>>}],
    [doc |-> <<"{","\"","a","\"",":","[","\"","1","\"","]",",","\"","b","\"",":","\"","3","\"","}">>, keys |-> {<<<<"a">>, <<"1">>>>, <<<<"b">>, <<"3">>>>}],
    [doc |-> <<"{","\"","a","\"",":","{","}",",","\"","b","\"",":","\"","1","\"","}">>, keys |-> {<<<<"b">>, <<"1">>>>}],
    [doc |-> <<"{","\"","a","\"",":","[","]",",","\"","b","\"",":","\"","1","\"","}">>, keys |-> {<<<<"b">>, <<"1">>>>}],
    [doc |-> <<"{","\"","a","\"",":","n","u","l","l",",","\"","b","\"",":","t","r","u","e","}">>, keys |-> {<<<<"a">>, <<"-">>>>, <<<<"b">>, <<"t","r","u","e">>>>}],
    [doc |-> <<"{","\"","a","\"",":","{","\"","b","\"",":","f","a","l","s","e","}",",","\"","c","\"",":","\"","1","\"","}">>, keys |-> {<<<<"a",".","b">>, <<"f","a","l","s","e">>>>, <<<<"c">>, <<"1">>>>}],
    [doc |-> <<"{","\"","a","\"",":","[","{","\"","b","\"",":","\"","1","\"","}",",","{","\"","c","\"",":","\"","2","\"","}","]",",","\"","d","\"",":","\"","3","\"","}">>,
     keys |-> {<<<<"a",".","b">>, <<"1">>>>, <<<<"a",".","c">>, <<"2">>>>, <<<<"d">>, <<"3">>>>}],
    [doc |-> <<"{","\"","a","\"",":","{","\"","b","\"",":","[","[","\"","1","\"","]",",","{","\"","c","\"",":","\"","2","\"","}","]","}","}">>, keys |-> {<<<<"a",".","b">>, <<"1">>>>, <<<<"a",".","b",".","c">>, <<"2">>>>}],
    [doc |-> <<"{","\"","a",".","b","\"",":","t","r","u","e",",","\"","c","\"",":","\"","1","\"","}">>, keys |-> {<<<<"a",".","b">>, <<"t","r","u","e">>>>, <<<<"c">>, <<"1">>>>}],
    [doc |-> <<"{","\"","a",".","b","\"",":","{","\"","c","\"",":","\"","1","\"","}",",","\"","d","\"",":","\"","2","\"","}">>, keys |-> {<<<<"a",".","b",".","c">>, <<"1">>>>, <<<<"d">>, <<"2">>>>}],
    [doc |-> <<"{","\"","a",".","b","\"",":","\"","1","\"",",","\"","c","\"",":","\"","2","\"","}">>, keys |-> {<<<<"a",".","b">>, <<"1">>>>, <<<<"c">>, <<"2">>>>}] }

InitKeys ==
  /\ pc = "parse_json_string"
  /\ conf = conf_init
  /\ call \in KeyDocs
  /\ retval = <<>>
  /\ js = pjs_start(call.doc)
  /\ json_logfmt = <<>>
  /\ nconfigs = 0 /\ ncalls = 0 /\ line = <<>> /\ logitem = NULL /\ pf = NoFormat
  /\ ret = 0 /\ logitem_out = NULL
  /\ DecodeIdle /\ JsonIdle /\ TzIdle

\* one iteration of parse_json_string's loop with the callback that stores
\* the pair in the dictionary
InsertKeyStep ==
  /\ pc = "parse_json_string"
  /\ \E n \in {parse_json_string_iter(js, "ht_insert_json_logfmt", json_logfmt, conf,
                                      json_logfmt)} :
       /\ js' = n.s
       /\ json_logfmt' = n.data
       /\ pc' = IF n.s.done THEN "keys_inserted" ELSE "parse_json_string"
  /\ UNCHANGED <<conf, nconfigs, ncalls, line, logitem, pf, ret, logitem_out, auxvars>>

NextKeys == InsertKeyStep

SpecKeys == InitKeys /\ [][NextKeys]_vars

----------------------------------------------------------------------------
(* parse_format applied on its own to a template and a line *)

\* the configuration after set_log_format_str, set_date_format_str,
\* set_time_format_str and set_spec_date_format for a custom template
Configured(lfmt) ==
  set_spec_date_format(
    set_time_format_str(set_date_format_str(set_log_format_str(conf_init, lfmt), <<"%","d","/","%","b","/","%","Y">>),
                        <<"%","H",":","%","M",":","%","S">>),
    <<>>).cf

LowerCase(s) ==
  [i \in 1..Len(s) |-> IF s[i] \in Range(Upper) THEN Lower[CHOOSE k \in 1..26 : Upper[k] = s[i]]
                       ELSE s[i]]

\* method tokens: every whitelist entry as it is, in lower case, followed by
\* another letter and cut short by one, and two words that are no method
MethodTokens ==
  UNION {{m, LowerCase(m), m \o <<"X">>, SubSeq(m, 1, Len(m) - 1)} : m \in Range(http_methods)}
    \cup {<<"F","O","O">>, <<"-">>}

\* a template with %m alone on each method token, and %r on request lines
\* led by some of them
MethodCalls ==
  {[lfmt |-> <<"%","m">>, s |-> t] : t \in MethodTokens}
    \cup {[lfmt |-> <<"%","r">>, s |-> t \o <<" ","/","a"," ","H","T","T","P","/","1",".","1">>] :
            t \in {<<"G","E","T">>, <<"g","e","t">>, <<"G","E","T","X">>, <<"G","E">>, <<"P","O","S","T">>, <<"P","O","S","T","S">>, <<"F","O","O">>}}

\* request lines for %r: a leading word, the text after it and a last word
RequestLines ==
  { m \o u \o p : m \in {<<"G","E","T">>, <<"p","o","s","t">>, <<"G","E","T","X">>, <<"F","O","O">>, <<"G","E","T","/">>},
                  u \in {<<" ","/","a"," ">>, <<" ","/","a","%","2","0","b"," ">>, <<" ","/","a"," ","b"," ">>, <<" ">>, <<" "," ">>, <<" ","/","a">>},
                  p \in {<<"H","T","T","P","/","1",".","1">>, <<"H","T","T","P","/","2",".","0">>, <<"h","t","t","p","/","3">>, <<"F","T","P","/","1">>, <<>>} }

RequestCalls == {[lfmt |-> <<"%","r">>, s |-> l] : l \in RequestLines}

\* lines that begin with a host, bracketed or not, under templates with
\* specifiers after %h
HostCalls ==
  { [lfmt |-> f, s |-> h \o <<" ","1","1","/","J","u","n","/","2","0","2","3"," ","G","E","T"," ","/","a">>] :
      f \in {<<"%","h"," ","%","d"," ","%","m"," ","%","U">>, <<"%","h"," ","%","d">>},
      h \in {<<"[",":",":","1","]">>, <<":",":","1">>, <<"[","1",".","2",".","3",".","4","]">>, <<"1",".","2",".","3",".","4">>, <<"[","x","]">>, <<"x">>, <<"[",":",":","1">>} }

\* lines of a date and a time in either order, with conf.tz_name = tz
TzDates == {<<"1","1","/","J","u","n","/","2","0","2","3">>, <<"3","1","/","D","e","c","/","2","0","2","3">>, <<"0","1","/","M","a","r","/","2","0","2","4">>}

TzTimes == {<<"0","0",":","0","0",":","0","0">>, <<"0","3",":","3","0",":","0","0">>, <<"1","4",":","0","0",":","0","0">>, <<"2","0",":","0","0",":","0","0">>, <<"2","3",":","5","9",":","5","9">>}

TzNames == {<<"A","s","i","a","/","S","h","a","n","g","h","a","i">>, <<"P","a","c","i","f","i","c","/","H","o","n","o","l","u","l","u">>, <<"E","t","c","/","U","T","C">>}

TzCalls ==
  {[lfmt |-> <<"%","d"," ","%","t">>, s |-> d \o <<" ">> \o t, tz |-> z] :
     d \in TzDates, t \in TzTimes, z \in TzNames}
    \cup {[lfmt |-> <<"%","t"," ","%","d">>, s |-> t \o <<" ">> \o d, tz |-> z] :
            d \in TzDates, t \in TzTimes, z \in TzNames}

\* referrers for %R: search referrers with and without parameters after the
\* query, with an empty and with an encoded query, and referrers of other sites
Referrers ==
  { <<"h","t","t","p","s",":","/","/","w","w","w",".","g","o","o","g","l","e",".","c","o","m","/","s","e","a","r","c","h","?","q","=","h","e","l","l","o","+","w","o","r","l","d","&","i","e","=","U","T","F","-","8">>,
    <<"h","t","t","p","s",":","/","/","w","w","w",".","g","o","o","g","l","e",".","c","o","m","/","s","e","a","r","c","h","?","q","=","h","e","l","l","o">>,
    <<"h","t","t","p","s",":","/","/","w","w","w",".","g","o","o","g","l","e",".","c","o","m","/","u","r","l","?","s","a","=","t","&","q","=","&","e","s","r","c","=","s">>,
    <<"h","t","t","p","s",":","/","/","w","w","w",".","g","o","o","g","l","e",".","c","o","m","/","u","r","l","%","3","F","q","%","3","D","f","o","o","%","2","6","s","a","%","3","D","U">>,
    <<"h","t","t","p",":","/","/","w","e","b","c","a","c","h","e",".","g","o","o","g","l","e","u","s","e","r","c","o","n","t","e","n","t",".","c","o","m","/","s","e","a","r","c","h","?","q","=","c","a","c","h","e",":","x",":","a",".","o","r","g","/","+","h","e","l","l","o","+","w","o","r","l","d","&","c","d","=","1">>,
    <<"h","t","t","p","s",":","/","/","w","w","w",".","g","o","o","g","l","e",".","c","o","m","/">>,
    <<"h","t","t","p",":","/","/","e","x","a","m","p","l","e",".","c","o","m","/","a","?","x","=","1","&","q","=","b","&","c","=","d">>,
    <<"e","x","a","m","p","l","e">>,
    <<"-">>,
    <<>> }

RefCalls == {[lfmt |-> <<"%","R">>, s |-> r] : r \in Referrers}

FormatCalls == MethodCalls \cup RequestCalls \cup HostCalls \cup TzCalls \cup RefCalls

InitFormat ==
  /\ pc = "parse_format"
  /\ call \in FormatCalls
  /\ conf = IF "tz" \in DOMAIN call
            THEN [Configured(call.lfmt) EXCEPT !.tz_name = Some(call.tz)]
            ELSE Configured(call.lfmt)
  /\ retval = <<>>
  /\ MainIdle
  /\ DecodeIdle /\ JsonIdle /\ TzIdle

\* parse_format(logitem, str, conf.log_format) on a fresh record
ParseFormat ==
  /\ pc = "parse_format"
  /\ \E r \in {parse_format(init_log_item, call.s, Val(conf.log_format), conf)} :
       /\ retval' = [ret |-> r.ret, li |-> r.li]
       /\ conf' = r.cf
  /\ pc' = "parsed_format"
  /\ UNCHANGED <<mainvars, decvars, jsonvars, tzvars, call>>

NextFormat == ParseFormat

SpecFormat == InitFormat /\ [][NextFormat]_vars

----------------------------------------------------------------------------
(* The properties *)

\* the first character of a line parse_line ignores without parsing it
SoftIgnored(l) == l = <<>> \/ l[1] \in {"#", "\n"}

Message(text) == Some([fmt |-> text, args |-> <<>>])

\* C1: whenever parse_line returns 0 the returned record has host, date,
\* request and user agent set, the agent being "-" when the tokenizer left it
\* unset; and when tokenization succeeded with host, date or request unset,
\* the call fails with the message that names the first missing field in the
\* order host, date, request
C1_RequiredFields ==
  [][ /\ (pc' = "returned" /\ ret' = 0) =>
           /\ logitem_out' # NULL
           /\ Val(logitem_out').host # NULL
           /\ Val(logitem_out').date # NULL
           /\ Val(logitem_out').req # NULL
           /\ Val(logitem_out').agent # NULL
      /\ (pc = "return" /\ ret = 0 /\ Val(logitem).agent = NULL) =>
           Val(logitem_out').agent = Some(<<"-">>)
      /\ (pc = "return" /\ ret = 0 /\ Val(logitem).agent # NULL) =>
           Val(logitem_out').agent = Val(logitem).agent
      /\ (pc = "return") => (pc' = "returned" /\ ret' = ret)
      /\ (pc = "verify" /\ ret = 0 /\ Val(logitem).host = NULL) =>
           (ret' # 0 /\ Val(logitem').errstr = Message("IPv4/6 is required."))
      /\ (pc = "verify" /\ ret = 0 /\ Val(logitem).host # NULL /\ Val(logitem).date = NULL) =>
           (ret' # 0 /\ Val(logitem').errstr = Message("A valid date is required."))
      /\ (pc = "verify" /\ ret = 0 /\ Val(logitem).host # NULL /\ Val(logitem).date # NULL
          /\ Val(logitem).req = NULL) =>
           (ret' # 0 /\ Val(logitem').errstr = Message("A request is required."))
    ]_vars

\* a line was tokenized with the host set and the date unset, and the check
\* of the required fields has failed it with the date's message
C1_Witness ==
  /\ pc = "return"
  /\ ret = 1
  /\ Val(logitem).host # NULL
  /\ Val(logitem).date = NULL
  /\ Val(logitem).errstr = Message("A valid date is required.")

\* the COMBINED preset with its default date and time formats is configured
CombinedConfigured ==
  /\ conf.log_format = Some(<<"%","h"," ","%","^","[","%","d",":","%","t"," ","%","^","]"," ","\"","%","r","\""," ","%","s"," ","%","b"," ","\"","%","R","\""," ","\"","%","u","\"">>)
  /\ conf.date_format = Some(<<"%","d","/","%","b","/","%","Y">>)
  /\ conf.time_format = Some(<<"%","H",":","%","M",":","%","S">>)
  /\ conf.is_json_log_format = 0

\* well-formed COMBINED lines with a referrer of "-" and a request without
\* escapes, each with the fields the line spells out
CombinedSamples ==
  { [line |-> <<"1","1","4",".","5",".","1",".","4"," ","-"," ","-"," ","[","1","1","/","J","u","n","/","2","0","2","3",":","0","1",":","2","3",":","4","5"," ","+","0","8","0","0","]"," ","\"","G","E","T"," ","/","e","x","a","m","p","l","e","/","p","a","t","h","/","f","i","l","e",".","i","m","g"," ","H","T","T","P","/","1",".","1","\""," ","4","2","9"," ","5","6","8"," ","\"","-","\""," ","\"","M","o","z","i","l","l","a","/","5",".","0"," ","(","W","i","n","d","o","w","s"," ","N","T"," ","1","0",".","0",")","\"">>,
     host |-> <<"1","1","4",".","5",".","1",".","4">>, date |-> <<"2","0","2","3","0","6","1","1">>, time |-> <<"0","1",":","2","3",":","4","5">>, method |-> <<"G","E","T">>,
     req |-> <<"/","e","x","a","m","p","l","e","/","p","a","t","h","/","f","i","l","e",".","i","m","g">>, protocol |-> <<"H","T","T","P","/","1",".","1">>, status |-> 429,
     resp_size |-> 568, ref |-> <<"-">>, agent |-> <<"M","o","z","i","l","l","a","/","5",".","0"," ","(","W","i","n","d","o","w","s"," ","N","T"," ","1","0",".","0",")">>],
    [line |-> <<"1","1","4",".","5",".","1",".","4"," ","-"," ","-"," ","[","1","1","/","J","u","n","/","2","0","2","3",":","0","1",":","2","3",":","4","5"," ","+","0","8","0","0","]"," ","\"","G","E","T"," ","/","a"," ","H","T","T","P","/","1",".","1","\""," ","4","6","3"," ","5","6","8"," ","\"","-","\""," ","\"","c","u","r","l","\"">>,
     host |-> <<"1","1","4",".","5",".","1",".","4">>, date |-> <<"2","0","2","3","0","6","1","1">>, time |-> <<"0","1",":","2","3",":","4","5">>, method |-> <<"G","E","T">>,
     req |-> <<"/","a">>, protocol |-> <<"H","T","T","P","/","1",".","1">>, status |-> 463,
     resp_size |-> 568, ref |-> <<"-">>, agent |-> <<"c","u","r","l">> ] }

\* C2: with the COMBINED preset and its default date and time formats, a
\* well-formed line with a valid IP, a whitelisted method and protocol, a
\* registered status and a decimal size parses successfully into the fields
\* the line spells out; with the referrer "-" the keyphrase stays unset
C2_CombinedParses ==
  \A w \in CombinedSamples :
    (pc = "returned" /\ CombinedConfigured /\ line = w.line) =>
      /\ ret = 0
      /\ logitem_out # NULL
      /\ Val(logitem_out).host = Some(w.host)
      /\ Val(logitem_out).date = Some(w.date)
      /\ Val(logitem_out).time = Some(w.time)
      /\ Val(logitem_out).method = Some(w.method)
      /\ Val(logitem_out).req = Some(w.req)
      /\ Val(logitem_out).protocol = Some(w.protocol)
      /\ Val(logitem_out).status = w.status
      /\ Val(logitem_out).resp_size = w.resp_size
      /\ Val(logitem_out).ref = Some(w.ref)
      /\ Val(logitem_out).agent = Some(w.agent)
      /\ Val(logitem_out).keyphrase = NULL

\* C3: whenever parse_line fails on a line that is not soft-ignored, the
\* record is handed back through the output parameter with its error field
\* holding the cause
C3_RecordHandedBack ==
  (pc = "returned" /\ ret # 0 /\ ~SoftIgnored(line)) =>
    (logitem_out # NULL /\ Val(logitem_out).errstr # NULL)

\* C4: the value parse_line returns for a soft-ignored line is returned for
\* no line that was parsed, in literal mode or in document mode
C4_DistinctSentinel ==
  (pc = "returned" /\ ~SoftIgnored(line)) => ret # -1

\* C5: in every configuration the status of a record returned by a
\* successful parse is -1 or lies in 0..599
C5_StatusRange ==
  (pc = "returned" /\ ret = 0) =>
    (Val(logitem_out).status = -1 \/ Val(logitem_out).status \in 0..599)

\* the specifier letters with a destination field
DestinationLetters ==
  {"d", "t", "x", "v", "e", "C", "h", "m", "U", "q", "H", "r", "s", "b", "R", "u", "L",
   "T", "D", "n", "k", "K", "M"}

\* parse_format is about to handle the letter of a specifier "%c"
AtSpecifier ==
  /\ pc = "format"
  /\ ~pf.done
  /\ pf.p <= Len(pf.fmt)
  /\ pf.perc # 0
  /\ pf.fmt[pf.p] \notin {"%"}
  /\ At(pf.s, pf.str) \notin {NUL, "\n"}

\* the letter parse_format is about to handle occurred as a specifier earlier
\* in the template
LaterOccurrence ==
  \E k \in 1..(pf.p - 3) : pf.fmt[k] = "%" /\ pf.fmt[k + 1] = pf.fmt[pf.p]

\* C6: a specifier letter with a destination field that occurs again in the
\* template leaves the record unchanged at every later occurrence
C6_SpecifierOnce ==
  [][ (AtSpecifier /\ pf.fmt[pf.p] \in DestinationLetters /\ LaterOccurrence) =>
        logitem' = logitem ]_vars

\* the fields of the record that hold text
TextFields ==
  {"agent", "date", "host", "keyphrase", "method", "protocol", "qstr", "ref", "req", "time",
   "vhost", "userid", "cache_status", "mime_type", "tls_type", "tls_cypher"}

\* C7: once a field of the record is set while a line is parsed, no later
\* specifier of the template changes it
C7_SetOnce ==
  [][ (pc \in {"format", "json"} /\ logitem' # NULL) =>
        \A f \in TextFields :
          Val(logitem)[f] # NULL => Val(logitem')[f] = Val(logitem)[f] ]_vars

\* C8: when the tokenizer stops at a token that fails its validator, it
\* returns the code 0x2 and the message holds the token and the letter
C8_TokenInvalidCode ==
  (pc = "verify" /\ Val(logitem).errstr # NULL
   /\ Val(Val(logitem).errstr).fmt = "Token '%s' doesn't match specifier '%%%c'") =>
    /\ ret = 2
    /\ Len(Val(Val(logitem).errstr).args) = 2

\* parse_format is about to handle "~h" where no "{" follows in the template
AtBarehost ==
  /\ pc = "format"
  /\ ~pf.done
  /\ pf.p <= Len(pf.fmt)
  /\ pf.tilde # 0
  /\ pf.fmt[pf.p] = "h"
  /\ \A k \in pf.p..Len(pf.fmt) : pf.fmt[k] # "{"
  /\ At(pf.s, pf.str) \notin {NUL, "\n"}

\* C9: "~h" without a reject set in braces fails the line with the code 0x3
\* and leaves the missing-braces message in the record
C9_MissingBraces ==
  [][ AtBarehost =>
        /\ pf'.done
        /\ pf'.ret = 3
        /\ Val(logitem').errstr # NULL
        /\ Val(Val(logitem').errstr).fmt =
             "Missing braces '%s' and ignore chars for specifier '%%%c'" ]_vars

\* the template from the pointer on still holds a specifier
SpecifierRemains ==
  \/ pf.perc # 0
  \/ pf.tilde # 0
  \/ \E k \in pf.p..Len(pf.fmt) : pf.fmt[k] \in {"%", "~"}

\* C10 as stated: the line-invalid error is raised only when the remaining
\* template still holds a specifier; a line that ends where only literal
\* characters remain completes successfully
C10_OnlyAtSpecifier ==
  (pc = "verify" /\ conf.is_json_log_format = 0 /\ ret = 4) => SpecifierRemains

\* the line has ended and parse_format is at a template character
LineEnded ==
  /\ pc = "format"
  /\ ~pf.done
  /\ At(pf.s, pf.str) = NUL
  /\ pf.p <= Len(pf.fmt)

\* the template character at the pointer is consumed by the loop itself
Consumed == pf.fmt[pf.p] = "%" \/ (pf.fmt[pf.p] = "~" /\ pf.perc = 0)

\* C10 amended: when the line has ended before the template, parse_format
\* fails with line-invalid (0x4) at the first remaining template character
\* other than "%" (and "~" outside a specifier), a literal character and a
\* specifier letter alike; it steps over "%" and "~", and it completes
\* successfully only when the template has no other character left
C10_LineInvalid ==
  [][ /\ (LineEnded /\ ~Consumed) =>
           /\ pf'.done
           /\ pf'.ret = 4
           /\ ret' = 4
           /\ Val(logitem').errstr =
                Message("Incompatible format due to early parsed line ending '\\0'.")
      /\ (LineEnded /\ Consumed) =>
           (~pf'.done /\ pf'.p = pf.p + 1 /\ pf'.str = pf.str /\ logitem' = logitem)
      /\ (pc = "format" /\ ~pf.done /\ At(pf.s, pf.str) = NUL /\ pf'.done /\ pf'.ret = 0) =>
           pf.p > Len(pf.fmt)
    ]_vars

\* the line ended where the template holds only the literal "x", and
\* parse_format failed it with line-invalid
C10_Witness ==
  /\ pc = "verify"
  /\ ret = 4
  /\ pf.done
  /\ pf.perc = 0 /\ pf.tilde = 0
  /\ pf.fmt[pf.p] = "x"
  /\ At(pf.s, pf.str) = NUL
  /\ Val(logitem).errstr = Message("Incompatible format due to early parsed line ending '\\0'.")

\* parse_line is between its entry and its return
InParseLine == pc \in {"ready", "format", "json", "verify", "return"}

\* C11: parse_line mutates only the record it allocates: a call leaves the
\* global configuration, its bandwidth and serve-time flags included, and
\* the specifier dictionary as they were before the call
C11_ConfigUntouched ==
  [][ (InParseLine /\ pc' \in {"format", "json", "verify", "return", "returned"}) =>
        (conf' = conf /\ json_logfmt' = json_logfmt) ]_vars

\* the value of a string of decimal digits
RECURSIVE Decimal(_)
Decimal(d) == IF d = <<>> THEN 0 ELSE 10 * Decimal(SubSeq(d, 1, Len(d) - 1)) + DigitVal(d[Len(d)])

IsDecimal(l) == l # <<>> /\ \A i \in 1..Len(l) : l[i] \in Range(Digits)

\* the line holds a byte that no spelling of a number holds
NotANumber(l) ==
  \E i \in 1..Len(l) :
    l[i] \notin Range(Digits) \cup {".", "+", "-", "e", "E", "x", "X", " ", "\t", "\n"}

\* microseconds for the number v read by the specifier letter c
Microseconds(c, v) ==
  CASE c = "L" -> v * 1000
    [] c = "T" -> v * 1000000
    [] c = "D" -> v
    [] c = "n" -> v \div 1000

\* the tokenizer has handled the line under the template "%c"
Tokenized(c) ==
  /\ pc = "verify"
  /\ ret = 0
  /\ conf.is_json_log_format = 0
  /\ conf.log_format = Some(<<"%", c>>)

\* C16: serve_time is in microseconds whichever specifier produced it: for
\* a token that is a decimal integer v, %L stores v*1000, %T stores
\* v*1000000, %D stores v and %n stores v div 1000; a token that is not a
\* number stores 0
C16_Microseconds ==
  \A c \in {"L", "T", "D", "n"} :
    Tokenized(c) =>
      /\ IsDecimal(line) => Val(logitem).serve_time = Microseconds(c, Decimal(line))
      /\ NotANumber(line) => Val(logitem).serve_time = 0

\* %n has read the token 2000, nanoseconds, and stored 2 microseconds
C16_Witness ==
  /\ Tokenized("n")
  /\ line = <<"2","0","0","0">>
  /\ Val(logitem).serve_time = 2

\* parse_format is about to handle "~h{REJECT}" with no host stored yet
AtXff ==
  /\ pc = "format"
  /\ ~pf.done
  /\ pf.tilde # 0
  /\ At(pf.fmt, pf.p) = "h"
  /\ At(pf.fmt, pf.p + 1) = "{"
  /\ \E k \in (pf.p + 3)..Len(pf.fmt) : pf.fmt[k] = "}"
  /\ At(pf.s, pf.str) \notin {NUL, "\n"}
  /\ Val(logitem).host = NULL

\* the position of the brace that closes REJECT
XffClose == CHOOSE k \in (pf.p + 3)..Len(pf.fmt) :
              pf.fmt[k] = "}" /\ \A j \in (pf.p + 3)..(k - 1) : pf.fmt[j] # "}"

\* the bytes of REJECT
XffReject == {pf.fmt[k] : k \in (pf.p + 2)..(XffClose - 1)}

\* the template's character after the closing brace delimits the field
XffHard ==
  /\ At(pf.fmt, XffClose + 1) \notin XffReject \cup {NUL}
  /\ \E j \in pf.str..Len(pf.s) : pf.s[j] = At(pf.fmt, XffClose + 1)

\* the position of the last character that is scanned
XffEnd ==
  IF XffHard
  THEN (CHOOSE j \in pf.str..Len(pf.s) :
          /\ pf.s[j] = At(pf.fmt, XffClose + 1)
          /\ \A k \in pf.str..(j - 1) : pf.s[k] # At(pf.fmt, XffClose + 1)) - 1
  ELSE Len(pf.s)

\* the last position of the run without a byte of reject that starts at i
XffLast(i, hi, reject) ==
  CHOOSE j \in i..hi :
    /\ j = hi \/ pf.s[j + 1] \in reject
    /\ \A k \in (i + 1)..j : pf.s[k] \notin reject

\* the maximal runs <<first, last>> without a byte of reject in lo..hi
XffRuns(lo, hi, reject) ==
  {<<i, XffLast(i, hi, reject)>> :
     i \in {a \in lo..hi : pf.s[a] \notin reject /\ (a = lo \/ pf.s[a - 1] \in reject)}}

\* the sub-tokens <<first, last>>: the maximal runs without a REJECT byte
XffSubTokens == XffRuns(pf.str, XffEnd, XffReject)

\* the text of a sub-token, the white space around it dropped
XffText(t) == trim_str(SubSeq(pf.s, t[1], t[2]))

\* the sub-tokens that are an IPv4 or IPv6 address
XffValid == {t \in XffSubTokens : inet_pton4(XffText(t)) \/ inet_pton6(XffText(t))}

XffFirstValid == CHOOSE t \in XffValid : \A u \in XffValid : t[1] <= u[1]

\* C14: "~h{REJECT}" stores the first sub-token of the field that is a valid
\* address as the host, a later sub-token never replaces it; with a hard
\* delimiter after "}" only the text before the delimiter is scanned and the
\* cursor ends just past it; without a valid sub-token the parse fails
C14_FirstValidHost ==
  [][ AtXff =>
        IF XffValid # {}
        THEN /\ logitem'[1].host = Some(XffText(XffFirstValid))
             /\ ~(pf'.done /\ pf'.ret # 0)
             /\ XffHard => pf'.str = XffEnd + 2
        ELSE /\ pf'.done
             /\ ret' # 0
             /\ logitem'[1].host = NULL ]_vars

\* the second sub-token was taken, the third was not, and the cursor is past "|"
C14_Witness ==
  /\ pc = "format"
  /\ pf.fmt = <<"~","h","{",",","}","|","%","d"," ","\"","%","r","\"">>
  /\ pf.s = <<"x",",","1",".","2",".","3",".","4",",",":",":","1","|","1","1","/","J","u","n","/","2","0","2","3"," ","\"","G","E","T"," ","/","x"," ","H","T","T","P","/","1",".","1","\"">>
  /\ Val(logitem).host = Some(<<"1",".","2",".","3",".","4">>)
  /\ pf.str = 15
  /\ pf.p = 7

\* parse_line returned a record
Parsed == pc = "returned" /\ ret = 0 /\ logitem_out # NULL

\* C15: the record of a successful parse has the address kind "invalid" only
\* under no_ip_validation; with validation its host is an IPv4 or IPv6
\* address and the kind says which, from "%h" and from "~h" alike
C15_HostKind ==
  Parsed =>
    /\ Val(logitem_out).type_ip = TYPE_IPINV => conf.no_ip_validation
    /\ ~conf.no_ip_validation =>
          /\ Val(logitem_out).host # NULL
          /\ \/ /\ inet_pton4(Val(Val(logitem_out).host))
                /\ Val(logitem_out).type_ip = TYPE_IPV4
             \/ /\ ~inet_pton4(Val(Val(logitem_out).host))
                /\ inet_pton6(Val(Val(logitem_out).host))
                /\ Val(logitem_out).type_ip = TYPE_IPV6

\* the IPv4 host that "~h" took from a list, validation on
C15_Witness ==
  /\ Parsed
  /\ ~conf.no_ip_validation
  /\ ~conf.no_strict_status
  /\ conf.TZ = 0
  /\ nconfigs = 1
  /\ conf.log_format = Some(<<"~","h","{",",","}","|","%","d"," ","\"","%","r","\"">>)
  /\ line = <<"x",",","1",".","2",".","3",".","4",",",":",":","1","|","1","1","/","J","u","n","/","2","0","2","3"," ","\"","G","E","T"," ","/","x"," ","H","T","T","P","/","1",".","1","\"">>
  /\ Val(logitem_out).host = Some(<<"1",".","2",".","3",".","4">>)
  /\ Val(logitem_out).type_ip = TYPE_IPV4


\* C18: after any sequence of set_log_format_str calls the flag
\* is_json_log_format is set exactly when the configured log_format is a
\* well-formed document
C18_JsonFlagTracksFormat ==
  (nconfigs > 0 /\ conf.log_format # NULL) =>
    (conf.is_json_log_format = 1 <=> is_json_log_format(Val(conf.log_format)) = 1)

\* the CADDY preset with its date and time formats is configured
CaddyConfigured ==
  /\ conf.is_json_log_format = 1
  /\ conf.date_format = Some(<<"%","s">>)
  /\ conf.time_format = Some(<<"%","s">>)
  /\ conf.log_format = Some(logs[11])

\* Caddy access-log lines, each with the values of the members the preset
\* routes: request.client_ip, request.uri, request.method, request.proto,
\* status and size
CaddySamples ==
  { [line |-> <<"{","\"","l","e","v","e","l","\"",":","\"","i","n","f","o","\"",",","\"","t","s","\"",":","1","6","4","6","8","6","1","4","0","1",".","5","2","4","1","0","2","4",",","\"","l","o","g","g","e","r","\"",":","\"","h","t","t","p",".","l","o","g",".","a","c","c","e","s","s","\"",",","\"","m","s","g","\"",":","\"","h","a","n","d","l","e","d"," ","r","e","q","u","e","s","t","\"",",","\"","r","e","q","u","e","s","t","\"",":","{","\"","r","e","m","o","t","e","_","i","p","\"",":","\"","1","2","7",".","0",".","0",".","1","\"",",","\"","r","e","m","o","t","e","_","p","o","r","t","\"",":","\"","4","1","3","4","2","\"",",","\"","c","l","i","e","n","t","_","i","p","\"",":","\"","1","2","7",".","0",".","0",".","1","\"",",","\"","p","r","o","t","o","\"",":","\"","H","T","T","P","/","2",".","0","\"",",","\"","m","e","t","h","o","d","\"",":","\"","G","E","T","\"",",","\"","h","o","s","t","\"",":","\"","l","o","c","a","l","h","o","s","t","\"",",","\"","u","r","i","\"",":","\"","/","\"",",","\"","h","e","a","d","e","r","s","\"",":","{","\"","U","s","e","r","-","A","g","e","n","t","\"",":","[","\"","c","u","r","l","/","7",".","8","2",".","0","\"","]",",","\"","A","c","c","e","p","t","\"",":","[","\"","*","/","*","\"","]",",","\"","A","c","c","e","p","t","-","E","n","c","o","d","i","n","g","\"",":","[","\"","g","z","i","p",","," ","d","e","f","l","a","t","e",","," ","b","r","\"","]","}",",","\"","t","l","s","\"",":","{","\"","r","e","s","u","m","e","d","\"",":","f","a","l","s","e",",","\"","v","e","r","s","i","o","n","\"",":","7","7","2",",","\"","c","i","p","h","e","r","_","s","u","i","t","e","\"",":","4","8","6","5",",","\"","p","r","o","t","o","\"",":","\"","h","2","\"",",","\"","s","e","r","v","e","r","_","n","a","m","e","\"",":","\"","e","x","a","m","p","l","e",".","c","o","m","\"","}","}",",","\"","b","y","t","e","s","_","r","e","a","d","\"",":","0",",","\"","u","s","e","r","_","i","d","\"",":","\"","\"",",","\"","d","u","r","a","t","i","o","n","\"",":","0",".","0","0","0","9","2","9","6","7","5",",","\"","s","i","z","e","\"",":","1","0","9","0","0",",","\"","s","t","a","t","u","s","\"",":","2","0","0",",","\"","r","e","s","p","_","h","e","a","d","e","r","s","\"",":","{","\"","S","e","r","v","e","r","\"",":","[","\"","C","a","d","d","y","\"","]",",","\"","C","o","n","t","e","n","t","-","E","n","c","o","d","i","n","g","\"",":","[","\"","g","z","i","p","\"","]",",","\"","C","o","n","t","e","n","t","-","T","y","p","e","\"",":","[","\"","t","e","x","t","/","h","t","m","l",";"," ","c","h","a","r","s","e","t","=","u","t","f","-","8","\"","]",",","\"","V","a","r","y","\"",":","[","\"","A","c","c","e","p","t","-","E","n","c","o","d","i","n","g","\"","]","}","}">>,
     client_ip |-> <<"1","2","7",".","0",".","0",".","1">>, uri |-> <<"/">>, method |-> <<"G","E","T">>, proto |-> <<"H","T","T","P","/","2",".","0">>,
     status |-> 200, size |-> 10900],
    [line |-> <<"{","\"","t","s","\"",":","1","7","0","9","2","5","1","1","9","9",".","2","5",",","\"","r","e","q","u","e","s","t","\"",":","{","\"","c","l","i","e","n","t","_","i","p","\"",":","\"",":",":","1","\"",",","\"","p","r","o","t","o","\"",":","\"","H","T","T","P","/","1",".","1","\"",",","\"","m","e","t","h","o","d","\"",":","\"","P","O","S","T","\"",",","\"","h","o","s","t","\"",":","\"","h","\"",",","\"","u","r","i","\"",":","\"","/","a","\"","}",",","\"","d","u","r","a","t","i","o","n","\"",":","0",".","5",",","\"","s","i","z","e","\"",":","7",",","\"","s","t","a","t","u","s","\"",":","4","0","4","}">>,
     client_ip |-> <<":",":","1">>, uri |-> <<"/","a">>, method |-> <<"P","O","S","T">>, proto |-> <<"H","T","T","P","/","1",".","1">>,
     status |-> 404, size |-> 7] }

\* the entries of the protocol whitelist the text begins with, whatever the case
WhitelistPrefixes(text) == {http_protocols[i] : i \in {k \in 1..Len(http_protocols) : strncasecmp_eq(text, http_protocols[k])}}

\* the record of a Caddy sample but for its protocol
CaddyRouted(w) ==
  /\ ret = 0
  /\ logitem_out # NULL
  /\ Val(logitem_out).host = Some(w.client_ip)
  /\ Val(logitem_out).req = Some(w.uri)
  /\ Val(logitem_out).method = Some(w.method)
  /\ Val(logitem_out).status = w.status
  /\ Val(logitem_out).resp_size = w.size

\* C13 as stated: with the CADDY preset a Caddy line parses successfully and
\* yields host = request.client_ip, request = request.uri, method =
\* request.method, protocol = the line's request.proto value, status = status
\* and response_size = size
C13_CaddyProtoValue ==
  (pc = "returned" /\ CaddyConfigured) =>
    \A w \in CaddySamples :
      line = w.line =>
        /\ CaddyRouted(w)
        /\ Val(logitem_out).protocol = Some(w.proto)

\* C13 amended: the protocol is the whitelist entry the line's request.proto
\* value begins with; the other fields are as stated
C13_CaddyProtoEntry ==
  (pc = "returned" /\ CaddyConfigured) =>
    \A w \in CaddySamples :
      line = w.line =>
        /\ CaddyRouted(w)
        /\ Val(logitem_out).protocol # NULL
        /\ Val(Val(logitem_out).protocol) \in WhitelistPrefixes(w.proto)

\* the reference line was parsed and its protocol is the entry HTTP/2
C13_Witness ==
  /\ pc = "returned"
  /\ CaddyConfigured
  /\ \E w \in CaddySamples : line = w.line /\ w.proto = <<"H","T","T","P","/","2",".","0">> /\ CaddyRouted(w)
  /\ Val(logitem_out).protocol = Some(<<"H","T","T","P","/","2">>)

----------------------------------------------------------------------------
(* URL decoding *)

\* one pass over u from left to right: a percent sign followed by two
\* hexadecimal digits becomes the byte, any other byte is copied
RECURSIVE HexPass(_)
HexPass(u) ==
  IF u = <<>> THEN <<>>
  ELSE IF Len(u) >= 3 /\ u[1] = "%" /\ isxdigit(u[2]) /\ isxdigit(u[3])
       THEN <<ByteChar[B16210(u[2]) * 16 + B16210(u[3]) + 1]>> \o HexPass(SubSeq(u, 4, Len(u)))
       ELSE <<u[1]>> \o HexPass(Tail(u))

\* the text of a pass, which ends at the first NUL byte it produced
HexText(u) == CString(HexPass(u))

\* CR and LF removed, then whitespace removed at both ends
Tidy(h) == trim_str(strip_newlines(h))

\* s holds no well-formed escape
NoEscape(s) == ~\E k \in 1..(Len(s) - 2) : s[k] = "%" /\ isxdigit(s[k + 1]) /\ isxdigit(s[k + 2])

\* there is nothing to strip or to trim in h, and h is not empty
Clean(h) == h # <<>> /\ Tidy(h) = h

----------------------------------------------------------------------------
(* the document reader *)

\* C19: once json_next has returned JSON_ERROR the error flag is set and
\* stays set: every later call returns JSON_ERROR again, reads no byte of the
\* input and leaves the message of the first violation in place
C19_StickyError ==
  [][event = "JSON_ERROR" =>
       /\ stream.error
       /\ stream.errmsg # NULL
       /\ event' = "JSON_ERROR"
       /\ stream'.position = stream.position
       /\ stream'.errmsg = stream.errmsg
       /\ stream'.error]_vars

\* json_next failed at the third call on [1,] and was called twice more
C19_Witness ==
  /\ stream.buf = <<"[","1",",","]">>
  /\ nnext = 5
  /\ event = "JSON_ERROR"
  /\ stream.error
  /\ stream.position = 4
  /\ stream.errmsg = Some([fmt |-> "unexpected byte '%c' in value", args |-> <<"]">>])

\* the bytes of the input not read yet
Rest(json) == SubSeq(json.buf, json.position + 1, Len(json.buf))

\* only whitespace remains
OnlySpace(json) == \A i \in 1..Len(Rest(json)) : Rest(json)[i] \in {" ", "\t", "\n", "\r"}

\* the last event completed the root value
RootComplete ==
  /\ event \in {"JSON_NUMBER", "JSON_STRING", "JSON_TRUE", "JSON_FALSE", "JSON_NULL",
                "JSON_ARRAY_END", "JSON_OBJECT_END"}
  /\ stream.stack = <<>>

\* C20: after a complete root value json_next returns JSON_DONE in streaming
\* mode, and in strict mode returns JSON_DONE if only whitespace remains and
\* JSON_ERROR if a byte that is not whitespace remains; is_json_log_format
\* refuses what the strict reader refuses, trailing bytes included, and the
\* reader of a log line is opened in streaming mode
C20_StrictAndStreaming ==
  [][/\ (RootComplete /\ nnext' = nnext + 1) =>
          event' = (IF stream.streaming \/ OnlySpace(stream) THEN "JSON_DONE" ELSE "JSON_ERROR")
     /\ event = "JSON_ERROR" => is_json_log_format(stream.buf) = 0
     /\ (event = "JSON_DONE" /\ stream.ntokens > 0) =>
          is_json_log_format(stream.buf) = (IF OnlySpace(stream) THEN 1 ELSE 0)
     /\ pjs_start(stream.buf).json.streaming]_vars

\* the strict reader refused the x after {} at its third call
C20_Witness ==
  /\ stream.buf = <<"{","}","x">>
  /\ ~stream.streaming
  /\ nnext = 3
  /\ event = "JSON_ERROR"
  /\ stream.errmsg = Some([fmt |-> "expected end of text instead of byte '%c'", args |-> <<"x">>])

----------------------------------------------------------------------------
(* the zone of the process *)

\* C12: with a timezone configured and several threads in str_to_time, a
\* thread converts to broken-down time while it still holds tz_mutex, so that
\* no thread converts while another thread is installing the zone
C12_ConvertUnderMutex ==
  \A t \in Threads :
    tpc[t] = "localtime_r" =>
      /\ tz_mutex = t
      /\ \A u \in Threads \ {t} : ~Installing(u)

----------------------------------------------------------------------------
(* Claims on the tokenizer's functions *)

\* the number of backslashes that end right before position i, counted back
\* to the cursor lo
BackslashRun(s, lo, i) ==
  Cardinality({j \in lo..(i - 1) : \A k \in j..(i - 1) : s[k] = "\\"})

\* position i is not stepped over as the byte after a backslash
Unescaped(s, lo, i) == BackslashRun(s, lo, i) % 2 = 0

\* the unescaped occurrences of byte c in s from the cursor lo up to hi
Occurrences(s, lo, hi, c) == {k \in lo..hi : k <= Len(s) /\ s[k] = c /\ Unescaped(s, lo, k)}

\* C21 as stated: when parse_string returns a token for a non-empty delimiter
\* set, the cursor is just past a delimiter byte and the token is the text
\* from the old cursor up to but not including that delimiter.
C21_CursorPastDelimiter ==
  (pc = "parsed" /\ call.delims # <<>> /\ retval.tkn # NULL) =>
    \E d \in call.str..Len(call.s) :
      /\ call.s[d] = call.delims[1]
      /\ retval.str = d + 1
      /\ Val(retval.tkn) = SubSeq(call.s, call.str, d - 1)

\* C21 amended: when parse_string returns a token for a non-empty delimiter
\* set, the cursor is at the terminating delimiter itself (the cnt-th
\* unescaped occurrence), or at the end of the line when fewer than cnt
\* unescaped occurrences exist, and the token is the text from the old cursor
\* up to but not including that position with surrounding white space trimmed.
C21_CursorAtDelimiter ==
  (pc = "parsed" /\ call.delims # <<>> /\ retval.tkn # NULL) =>
    /\ retval.str \in call.str..(Len(call.s) + 1)
    /\ Val(retval.tkn) = trim_str(SubSeq(call.s, call.str, retval.str - 1))
    /\ IF retval.str <= Len(call.s)
       THEN /\ retval.str \in Occurrences(call.s, call.str, retval.str, call.delims[1])
            /\ Cardinality(Occurrences(call.s, call.str, retval.str, call.delims[1])) = call.cnt
       ELSE Cardinality(Occurrences(call.s, call.str, Len(call.s), call.delims[1])) < call.cnt

\* a token with a space before it, ended by the second comma
C21_Witness ==
  /\ pc = "parsed"
  /\ call = [s |-> <<" ","a",",","a",",">>, str |-> 1, delims |-> <<",">>, cnt |-> 2]
  /\ retval = [tkn |-> Some(<<"a",",","a">>), str |-> 5]

\* the rest of the line from the cursor, as parsed_string returns it
Remainder(s, lo) == [tkn |-> Some(trim_str(SubSeq(s, lo, Len(s)))), str |-> Len(s) + 1]

\* C22 as stated: escaped delimiter bytes do not count; for a non-empty
\* delimiter set parse_string returns null and leaves the cursor when no
\* unescaped delimiter follows the cursor; for an empty delimiter set it
\* returns the remainder of the line.
C22_NullWithoutDelimiter ==
  pc = "parsed" =>
    IF call.delims = <<>>
    THEN retval = Remainder(call.s, call.str)
    ELSE IF Occurrences(call.s, call.str, Len(call.s), call.delims[1]) = {}
         THEN retval = [tkn |-> NULL, str |-> call.str]
         ELSE retval.tkn # NULL =>
                \/ retval.str = Len(call.s) + 1
                \/ Cardinality(Occurrences(call.s, call.str, retval.str, call.delims[1]))
                     = call.cnt

\* C22 amended: escaped delimiter bytes do not count; for a non-empty
\* delimiter set parse_string returns null and leaves the cursor when no
\* delimiter byte at all, escaped or not, follows the cursor; otherwise, when
\* fewer than cnt unescaped delimiters follow (always so for an empty
\* delimiter set), it returns the remainder of the line, or null when the
\* line ends in an unescaped backslash; otherwise it returns the token ended
\* by the cnt-th unescaped delimiter.
C22_NullCases ==
  pc = "parsed" =>
    IF call.delims # <<>> /\ ~\E k \in call.str..Len(call.s) : call.s[k] = call.delims[1]
    THEN retval = [tkn |-> NULL, str |-> call.str]
    ELSE IF \/ call.delims = <<>>
            \/ Cardinality(Occurrences(call.s, call.str, Len(call.s), call.delims[1]))
                 < call.cnt
         THEN IF Unescaped(call.s, call.str, Len(call.s) + 1)
              THEN retval = Remainder(call.s, call.str)
              ELSE retval = [tkn |-> NULL, str |-> call.str]
         ELSE /\ retval.tkn # NULL
              /\ retval.str \in Occurrences(call.s, call.str, Len(call.s), call.delims[1])
              /\ Cardinality(Occurrences(call.s, call.str, retval.str, call.delims[1]))
                   = call.cnt

\* the only comma is escaped: the remainder of the line is returned
C22_Witness ==
  /\ pc = "parsed"
  /\ call = [s |-> <<"a","\\",",","a">>, str |-> 1, delims |-> <<",">>, cnt |-> 1]
  /\ retval = [tkn |-> Some(<<"a","\\",",","a">>), str |-> 5]

\* t is a whitelist entry, compared without case
Whitelisted(t) == \E i \in 1..Len(http_methods) : strcasecmp_eq(t, http_methods[i])

\* the text of s before its first space
LeadingWord(s) == SubSeq(s, 1, strcspn(s, 1, <<" ">>))

\* C23: a %m token is accepted as a method if and only if it equals a
\* whitelist entry without regard to case, and the method stored for %m or
\* for the leading word of %r is the entry that word equals.
C23_MethodWhitelist ==
  (pc = "parsed_format" /\ call.lfmt \in {<<"%","m">>, <<"%","r">>}) =>
    /\ call.lfmt = <<"%","m">> =>
         ((retval.ret = 0 /\ retval.li.method # NULL) <=> Whitelisted(call.s))
    /\ retval.li.method # NULL =>
         /\ Val(retval.li.method) \in Range(http_methods)
         /\ strcasecmp_eq(LeadingWord(call.s), Val(retval.li.method))

\* C24: for every code n in 0..599, is_valid_http_status accepts n if and
\* only if a description STATUS_CODE_n is defined, and the description stored
\* at index n of codes[] is the one written for code n.
C24_TableAligned ==
  (pc = "validated" /\ call.code \in 0..599) =>
    /\ retval.valid <=> call.code \in StatusCodeDefined
    /\ retval.description \in {NULL, Some(call.code)}

\* C25: the key passed to the callback with each scalar value is the dot-joined
\* names of the members that enclose the value, so the pairs stored are those
\* of the document; and whenever a member of the root object has been consumed
\* in full, the path is again that of the root object, the empty one.
C25_DottedKeys ==
  /\ (pc = "keys_inserted" /\ js.ret = 0) => json_logfmt = Dict(call.keys)
  /\ (/\ pc \in {"parse_json_string", "keys_inserted"}
      /\ Len(js.json.stack) = 1
      /\ js.json.stack[1].type = "JSON_OBJECT"
      /\ js.json.stack[1].count > 0
      /\ js.json.stack[1].count % 2 = 0) => js.key = Some(<<>>)

\* the entries of table that t begins with, compared without case
Leading(table, t) == {e \in Range(table) : strncasecmp_eq(t, e)}

\* the last space of t after position lo, 0 if there is none
LastSpace(t, lo) ==
  IF \E k \in (lo + 1)..Len(t) : t[k] = " "
  THEN CHOOSE k \in (lo + 1)..Len(t) : t[k] = " " /\ \A n \in (k + 1)..Len(t) : t[n] # " "
  ELSE 0

\* the text x URL-decoded; x itself when decoding leaves nothing
Decoded(x) ==
  IF x = <<>> \/ trim_str(strip_newlines(decode_hex(x))) = <<>> THEN x
  ELSE trim_str(strip_newlines(decode_hex(x)))

\* the %r token of the call: the line, trimmed
Token == trim_str(call.s)

RequestSplit(t, li) ==
  IF Leading(http_methods, t) = {}
  THEN /\ li.req = Some(Decoded(t))
       /\ li.method = NULL /\ li.protocol = NULL
  ELSE \E m \in Leading(http_methods, t) :
         IF \/ LastSpace(t, Len(m)) <= Len(m) + 1
            \/ Leading(http_protocols, From(t, LastSpace(t, Len(m)) + 1)) = {}
         THEN /\ li.req = Some(<<"-">>)
              /\ li.method = NULL /\ li.protocol = NULL
         ELSE /\ li.method = Some(m)
              /\ li.protocol
                   \in {Some(e) : e \in Leading(http_protocols, From(t, LastSpace(t, Len(m)) + 1))}
              /\ li.req = Some(Decoded(SubSeq(t, Len(m) + 2, LastSpace(t, Len(m)))))

Kinds(json) == [i \in 1..Len(json.stack) |-> json.stack[i].type]

ScalarEvents == {"JSON_STRING", "JSON_NUMBER", "JSON_TRUE", "JSON_FALSE", "JSON_NULL"}

\* a call of json_next that returned no error: containers are opened and
\* closed by kind on the stack, and a member name and one value alternate in
\* an object
NestedStep ==
  (nnext' = nnext + 1 /\ event' # "JSON_ERROR") =>
    /\ event' \in {"JSON_OBJECT", "JSON_ARRAY"} => Kinds(stream') = Append(Kinds(stream), event')
    /\ event' = "JSON_OBJECT_END" => Kinds(stream) = Append(Kinds(stream'), "JSON_OBJECT")
    /\ event' = "JSON_ARRAY_END" => Kinds(stream) = Append(Kinds(stream'), "JSON_ARRAY")
    /\ event' \in ScalarEvents \cup {"JSON_DONE"} => Kinds(stream') = Kinds(stream)
    /\ (/\ stream.stack # <<>>
        /\ stream.stack[Len(stream.stack)].type = "JSON_OBJECT"
        /\ event' # "JSON_OBJECT_END") =>
          /\ stream.stack[Len(stream.stack)].count % 2 = 0 => event' = "JSON_STRING"
          /\ event' \in ScalarEvents \cup {"JSON_OBJECT", "JSON_ARRAY"}
          /\ stream'.stack[Len(stream.stack)].count
               = stream.stack[Len(stream.stack)].count + 1
    /\ (event' = "JSON_OBJECT_END") => stream.stack[Len(stream.stack)].count % 2 = 0
    /\ event' = "JSON_DONE" => stream.stack = <<>>

\* C27 as stated: in an event sequence without an error, container events are
\* nested and matched by kind, a member name and one value alternate inside an
\* object, the stack depth is the number of open containers, and done is
\* returned only with an empty stack after a root value.
C27_DoneAfterRoot ==
  [][/\ NestedStep
     /\ (nnext' = nnext + 1 /\ event' = "JSON_DONE") => stream.ntokens > 0]_vars

\* C27 amended: as stated, except that done is returned with an empty stack
\* either after a root value or, in streaming mode, at the end of an input
\* that holds no value at all.
C27_DoneAtEnd ==
  [][/\ NestedStep
     /\ (nnext' = nnext + 1 /\ event' = "JSON_DONE") =>
          \/ stream.ntokens > 0
          \/ (stream.streaming /\ OnlySpace(stream))]_vars

\* an array in a member of an object was opened and closed, and done returned
C27_Witness ==
  /\ stream.buf = <<"{","\"","a","\"",":","[","1","]","}">>
  /\ nnext = 7
  /\ event = "JSON_DONE"
  /\ stream.stack = <<>>
  /\ stream.ntokens = 4

\* the position of the first ] of s, 0 if there is none
ClosingBracket(s) == strchr(s, 1, "]")

\* the line s without the [ it begins with and without the first ]
Unbracketed(s) ==
  SubSeq(s, 2, ClosingBracket(s) - 1) \o SubSeq(s, ClosingBracket(s) + 1, Len(s))

\* C28: when the line at %h begins with [ the token is the text between the [
\* and the next ], validated as an IP address, and parsing resumes right
\* after the ]: the record and the return value are those of the same line
\* with the host unbracketed.
C28_BracketedHost ==
  (/\ pc = "parsed_format"
   /\ call \in HostCalls
   /\ call.s[1] = "["
   /\ ClosingBracket(call.s) # 0) =>
    /\ IF invalid_ipaddr(SubSeq(call.s, 2, ClosingBracket(call.s) - 1)).invalid
       THEN retval.ret # 0 /\ retval.li.host = NULL
       ELSE retval.li.host = Some(SubSeq(call.s, 2, ClosingBracket(call.s) - 1))
    /\ \E twin \in {parse_format(init_log_item, Unbracketed(call.s), Val(conf.log_format), conf)} :
         /\ retval.ret = twin.ret
         /\ retval.li = twin.li

\* the line's date text followed by its time text, whichever comes first
DateThenTime(c) ==
  IF c.lfmt = <<"%","d"," ","%","t">> THEN c.s
  ELSE SubSeq(c.s, strchr(c.s, 1, " ") + 1, Len(c.s)) \o <<" ">>
         \o SubSeq(c.s, 1, strchr(c.s, 1, " ") - 1)

\* the broken-down local time, in the zone named tz, of the UTC instant that
\* the line's date and time form together
LocalInstant(c) ==
  localtime_r(tm2time(strptime(DateThenTime(c), <<"%","d","/","%","b","/","%","Y"," ","%","H",":","%","M",":","%","S">>, init_log_item.dt, 0).tm).secs
                + zone_offset(c.tz)
                + 86400 * tm2time(strptime(DateThenTime(c), <<"%","d","/","%","b","/","%","Y"," ","%","H",":","%","M",":","%","S">>,
                                           init_log_item.dt, 0).tm).days,
              0)

\* C29: with a timezone configured and textual date and time formats, the
\* stored date and time of a record are the local date and local time, in the
\* configured zone, of the single UTC instant formed by the line's parsed date
\* and parsed time together, whichever of %d and %t comes first in the
\* template.
C29_LocalInstant ==
  (pc = "parsed_format" /\ call \in TzCalls) =>
    /\ retval.ret = 0
    /\ retval.li.date = set_date(conf, LocalInstant(call))
    /\ retval.li.time = set_time(LocalInstant(call))

\* C30: for %R with a token other than empty or `-`, the referrer stored in
\* the record is the extracted token in full: attempting keyphrase and
\* site-host extraction, whether it succeeds or fails, leaves the stored
\* referrer text unchanged.
C30_ReferrerInFull ==
  (/\ pc = "parsed_format"
   /\ call \in RefCalls
   /\ trim_str(call.s) \notin {<<>>, <<"-">>}) =>
    retval.li.ref = Some(trim_str(call.s))

====
